---- MODULE Spec2Model ----
(***************************************************************************)
(* Loan sales assistant (mujhackx3-0/debenture).                           *)
(*                                                                         *)
(* The specifications of this module share its variables:                  *)
(*   Spec, SpecSessions, SpecRequest, SpecErrors, SpecRoundTrip            *)
(*                the API server: session store, endpoints, the agent's    *)
(*                per-turn business logic, request validation, the error   *)
(*                envelope and the response model (app/main.py,            *)
(*                app/models.py, app/core/session.py, app/core/agent.py);  *)
(*   SpecConcurrent, SpecDeleted, SpecSocket                               *)
(*                chat requests that overlap, also with DELETE; the        *)
(*                WebSocket endpoint;                                      *)
(*   SpecHistory, SpecStore, SpecStoreCalls, SpecAgent, SpecStream         *)
(*                SessionManager and LoanSalesAgent called directly;       *)
(*   SpecRAG      knowledge retrieval (app/core/rag.py);                   *)
(*   SpecCLI, SpecRouter, SpecGraph                                        *)
(*                the command-line prototype: its tools, its router and    *)
(*                one invocation of its graph.                             *)
(*                                                                         *)
(* Python values are modelled as follows.  str is a TLA+ string, and the   *)
(* string methods the code uses are computed character by character.       *)
(* Optional[T] is a sequence of length at most one: <<>> is None and <<v>> *)
(* is the value v.  A float rounded to two decimals is the integer number  *)
(* of hundredths (10.0 is 1000, 12.5 is 1250).                             *)
(***************************************************************************)
EXTENDS Integers, Sequences, FiniteSets, TLC

----------------------------------------------------------------------------
(* Python values *)

None == <<>>

Some(v) == <<v>>

\* bool(x) for an Optional[int]: None and 0 are falsy
TruthyInt(o) == o # None /\ o[1] # 0

\* bool(x) for an Optional[str]: None and "" are falsy
TruthyStr(o) == o # None /\ o[1] # ""

Min(a, b) == IF a <= b THEN a ELSE b

Max(a, b) == IF a >= b THEN a ELSE b

----------------------------------------------------------------------------
(* str methods, character by character *)

CharAt(s, i) == SubSeq(s, i, i)

UpperChars == "ABCDEFGHIJKLMNOPQRSTUVWXYZ"

LowerChars == "abcdefghijklmnopqrstuvwxyz"

DigitChars == "0123456789"

IsSpace(c) == c \in {" ", "\t", "\n"}

IsDigit(c) == \E i \in 1..10 : CharAt(DigitChars, i) = c

DigitValue(c) == (CHOOSE i \in 1..10 : CharAt(DigitChars, i) = c) - 1

LowerChar(c) ==
    IF \E i \in 1..26 : CharAt(UpperChars, i) = c
    THEN CharAt(LowerChars, CHOOSE i \in 1..26 : CharAt(UpperChars, i) = c)
    ELSE c

UpperChar(c) ==
    IF \E i \in 1..26 : CharAt(LowerChars, i) = c
    THEN CharAt(UpperChars, CHOOSE i \in 1..26 : CharAt(LowerChars, i) = c)
    ELSE c

\* str.lower()
RECURSIVE Lower(_)
Lower(s) == IF s = "" THEN "" ELSE LowerChar(Head(s)) \o Lower(Tail(s))

\* str.capitalize(): first character upper-cased, the rest lower-cased
Capitalize(s) == IF s = "" THEN "" ELSE UpperChar(Head(s)) \o Lower(Tail(s))

\* s.startswith(p, i-1): p occurs in s at 1-based position i
StartsWithAt(s, i, p) ==
    /\ i + Len(p) - 1 <= Len(s)
    /\ SubSeq(s, i, i + Len(p) - 1) = p

\* sub in s
Contains(s, sub) == \E i \in 1..(Len(s) + 1) : StartsWithAt(s, i, sub)

\* str.replace(a, b) for a single character a
RECURSIVE Replace(_, _, _)
Replace(s, a, b) ==
    IF s = "" THEN ""
    ELSE (IF Head(s) = a THEN b ELSE Head(s)) \o Replace(Tail(s), a, b)

\* str.split(): the maximal runs of non-whitespace characters, in order
RECURSIVE SplitFrom(_, _, _)
SplitFrom(s, i, word) ==
    IF i > Len(s)
    THEN (IF word = "" THEN <<>> ELSE <<word>>)
    ELSE IF IsSpace(CharAt(s, i))
         THEN (IF word = "" THEN <<>> ELSE <<word>>) \o SplitFrom(s, i + 1, "")
         ELSE SplitFrom(s, i + 1, word \o CharAt(s, i))

Split(s) == SplitFrom(s, 1, "")

\* sep.join(words)
RECURSIVE Join(_, _)
Join(sep, words) ==
    IF words = <<>> THEN ""
    ELSE IF Len(words) = 1 THEN words[1]
    ELSE words[1] \o sep \o Join(sep, Tail(words))

\* str.strip(chars): drop leading and trailing characters that are in chars
RECURSIVE LStrip(_, _)
LStrip(s, chars) ==
    IF s # "" /\ Contains(chars, Head(s)) THEN LStrip(Tail(s), chars) ELSE s

RECURSIVE RStrip(_, _)
RStrip(s, chars) ==
    IF s # "" /\ Contains(chars, CharAt(s, Len(s)))
    THEN RStrip(SubSeq(s, 1, Len(s) - 1), chars)
    ELSE s

Strip(s, chars) == RStrip(LStrip(s, chars), chars)

\* Python whitespace strip, as ChatMessageRequest.sanitize_message applies it
StripSpace(s) == Strip(s, " \t\n")

\* int(s) for a string of decimal digits
RECURSIVE StrToInt(_)
StrToInt(s) ==
    IF s = "" THEN 0
    ELSE 10 * StrToInt(SubSeq(s, 1, Len(s) - 1)) + DigitValue(CharAt(s, Len(s)))

\* str(n) for n >= 0
RECURSIVE IntToStr(_)
IntToStr(n) ==
    IF n < 10 THEN CharAt(DigitChars, n + 1)
    ELSE IntToStr(n \div 10) \o CharAt(DigitChars, (n % 10) + 1)

\* list.index(x) + 0, 1-based; 0 when x is not in the list
ListIndex(words, x) ==
    IF \E i \in 1..Len(words) : words[i] = x
    THEN CHOOSE i \in 1..Len(words) :
            words[i] = x /\ \A j \in 1..(i - 1) : words[j] # x
    ELSE 0

\* words[a:b] with 0-based Python bounds a <= b
Slice(words, a, b) == SubSeq(words, a + 1, Min(b, Len(words)))

----------------------------------------------------------------------------
(* Settings (app/config.py) *)

MAX_MESSAGE_HISTORY == 50

MIN_CREDIT_SCORE == 650

MAX_PERSONAL_LOAN == 500000

----------------------------------------------------------------------------
(* The loan application record of a session (create_session) *)

DefaultLoanApplication ==
    [ applicant_name            |-> None,
      desired_amount            |-> None,
      loan_term_months          |-> None,
      purpose                   |-> None,
      kyc_verified              |-> FALSE,
      credit_score              |-> None,
      credit_eligibility        |-> "pending",
      offered_amount            |-> None,
      offered_interest_rate     |-> None,
      sanction_letter_generated |-> FALSE,
      sanction_letter_url       |-> None,
      status                    |-> "initiated" ]

\* NewSession that stores the greeting as the first message
NewSession_WithGreeting(session_id) ==
    [ session_id       |-> session_id,
      messages         |-> <<[role |-> "assistant", content |-> "Hello!"]>>,
      loan_application |-> DefaultLoanApplication ]

NewSession(session_id) ==
    [ session_id       |-> session_id,
      messages         |-> <<>>,
      loan_application |-> DefaultLoanApplication ]

----------------------------------------------------------------------------
(* LoanSalesAgent._process_business_logic, block by block *)

NameTriggers == <<"name is", "i am", "i'm">>

HasNameTrigger(user_lower) ==
    \E i \in 1..Len(NameTriggers) : Contains(user_lower, NameTriggers[i])

\* a name extraction that falls back on the words after the token "am"
NameFromWords_AfterAm(user_message) ==
    LET words == Split(user_message)
        idx   == IF ListIndex(words, "is") # 0
                 THEN ListIndex(words, "is") ELSE ListIndex(words, "am")
    IN  IF idx # 0 /\ idx < Len(words)
        THEN Some(Strip(Join(" ", Slice(words, idx, idx + 2)), ".,!?"))
        ELSE None

\* the name taken from the words after the first token "is"; None when the
\* code assigns nothing
NameFromWords(user_message) ==
    LET words == Split(user_message)
        idx   == ListIndex(words, "is")
    IN  IF idx # 0 /\ idx < Len(words)
        THEN Some(Strip(Join(" ", Slice(words, idx, idx + 2)), ".,!?"))
        ELSE None

\* re.search(r'(\d+)\s*(lakh|lakhs|thousand|k)', s): positions are 1-based
RECURSIVE SkipDigits(_, _)
SkipDigits(s, i) ==
    IF i <= Len(s) /\ IsDigit(CharAt(s, i)) THEN SkipDigits(s, i + 1) ELSE i

RECURSIVE SkipSpaces(_, _)
SkipSpaces(s, i) ==
    IF i <= Len(s) /\ IsSpace(CharAt(s, i)) THEN SkipSpaces(s, i + 1) ELSE i

AmountUnits == <<"lakh", "lakhs", "thousand", "k">>

\* the first alternative of the group that matches at position k, "" if none
UnitAt(s, k) ==
    IF \E u \in 1..Len(AmountUnits) : StartsWithAt(s, k, AmountUnits[u])
    THEN AmountUnits[CHOOSE u \in 1..Len(AmountUnits) :
            /\ StartsWithAt(s, k, AmountUnits[u])
            /\ \A v \in 1..(u - 1) : ~StartsWithAt(s, k, AmountUnits[v])]
    ELSE ""

AmountMatchAt(s, i) ==
    /\ i <= Len(s)
    /\ IsDigit(CharAt(s, i))
    /\ UnitAt(s, SkipSpaces(s, SkipDigits(s, i))) # ""

\* the leftmost match as <<group(1), group(2)>>, None when there is none
AmountMatch(s) ==
    IF \E i \in 1..Len(s) : AmountMatchAt(s, i)
    THEN LET i == CHOOSE i \in 1..Len(s) :
                    /\ AmountMatchAt(s, i)
                    /\ \A j \in 1..(i - 1) : ~AmountMatchAt(s, j)
             e == SkipDigits(s, i)
         IN  Some(<<SubSeq(s, i, e - 1), UnitAt(s, SkipSpaces(s, e))>>)
    ELSE None

\* UnitMultiplier with the two tests in the other order
UnitMultiplier_KFirst(unit) ==
    IF Contains(unit, "k") \/ Contains(unit, "thousand") THEN 1000
    ELSE IF Contains(unit, "lakh") THEN 100000
    ELSE 0

\* every unit the pattern can capture contains "lakh", "k" or "thousand"
UnitMultiplier(unit) ==
    IF Contains(unit, "lakh") THEN 100000
    ELSE IF Contains(unit, "k") \/ Contains(unit, "thousand") THEN 1000
    ELSE 0

\* the amount the code assigns, None when the pattern does not match
AmountFromText(user_message) ==
    LET amount_match == AmountMatch(Lower(user_message))
    IN  IF amount_match # None
        THEN Some(StrToInt(amount_match[1][1]) * UnitMultiplier(amount_match[1][2]))
        ELSE None

Purposes == <<"home", "car", "education", "medical", "wedding", "business", "renovation">>

\* the first purpose of the list that occurs in the text, capitalized
PurposeFromText(user_message) ==
    LET user_lower == Lower(user_message)
    IN  IF \E i \in 1..Len(Purposes) : Contains(user_lower, Purposes[i])
        THEN Some(Capitalize(Purposes[
                CHOOSE i \in 1..Len(Purposes) :
                    /\ Contains(user_lower, Purposes[i])
                    /\ \A j \in 1..(i - 1) : ~Contains(user_lower, Purposes[j])]))
        ELSE None

AcceptWords == <<"yes", "accept", "agree", "proceed">>

HasAcceptWord(user_lower) ==
    \E i \in 1..Len(AcceptWords) : Contains(user_lower, AcceptWords[i])

\* everything the business logic reads off the user's text
Scan(user_message) ==
    [ name_trigger |-> HasNameTrigger(Lower(user_message)),
      name         |-> NameFromWords(user_message),
      amount       |-> AmountFromText(user_message),
      purpose      |-> PurposeFromText(user_message),
      accept       |-> HasAcceptWord(Lower(user_message)) ]

ExtractName(app, scan) ==
    IF ~TruthyStr(app.applicant_name) /\ scan.name_trigger /\ scan.name # None
    THEN [app EXCEPT !.applicant_name = scan.name]
    ELSE app

ExtractAmount(app, scan) ==
    IF ~TruthyInt(app.desired_amount) /\ scan.amount # None
    THEN [app EXCEPT !.desired_amount = scan.amount]
    ELSE app

ExtractPurpose(app, scan) ==
    IF ~TruthyStr(app.purpose) /\ scan.purpose # None
    THEN [app EXCEPT !.purpose = scan.purpose]
    ELSE app

\* AutoKYC that verifies again on every turn that finds a name
AutoKYC_EveryTurn(app) ==
    IF TruthyStr(app.applicant_name)
    THEN [app EXCEPT !.kyc_verified = TRUE, !.status = "credit_check_pending"]
    ELSE app

AutoKYC(app) ==
    IF TruthyStr(app.applicant_name) /\ ~app.kyc_verified
    THEN [app EXCEPT !.kyc_verified = TRUE, !.status = "credit_check_pending"]
    ELSE app

\* the condition under which the credit block runs
\* CreditCheckDue without the test that eligibility is still pending
CreditCheckDue_Again(app) ==
    /\ TruthyInt(app.desired_amount)
    /\ app.kyc_verified

CreditCheckDue(app) ==
    /\ TruthyInt(app.desired_amount)
    /\ app.kyc_verified
    /\ app.credit_eligibility = "pending"

\* CreditPasses with a strict comparison against the maximum loan
CreditPasses_StrictMax(app, credit_score) ==
    /\ credit_score >= MIN_CREDIT_SCORE
    /\ app.desired_amount[1] < MAX_PERSONAL_LOAN

\* the condition under which the credit block makes an offer
CreditPasses(app, credit_score) ==
    /\ credit_score >= MIN_CREDIT_SCORE
    /\ app.desired_amount[1] <= MAX_PERSONAL_LOAN

\* AutoCreditCheck whose rejecting branch also marks the application eligible
AutoCreditCheck_RejectEligible(app, credit_score, amount_draw, rate_draw) ==
    IF CreditCheckDue(app)
    THEN IF CreditPasses(app, credit_score)
         THEN [app EXCEPT !.credit_score = Some(credit_score),
                          !.credit_eligibility = "eligible",
                          !.offered_amount = Some(Min(app.desired_amount[1], amount_draw)),
                          !.offered_interest_rate = Some(rate_draw),
                          !.status = "offer_made"]
         ELSE [app EXCEPT !.credit_score = Some(credit_score),
                          !.credit_eligibility = "eligible",
                          !.status = "rejected"]
    ELSE app

\* credit_score, amount_draw and rate_draw are the three random draws
AutoCreditCheck(app, credit_score, amount_draw, rate_draw) ==
    IF CreditCheckDue(app)
    THEN IF CreditPasses(app, credit_score)
         THEN [app EXCEPT !.credit_score = Some(credit_score),
                          !.credit_eligibility = "eligible",
                          !.offered_amount = Some(Min(app.desired_amount[1], amount_draw)),
                          !.offered_interest_rate = Some(rate_draw),
                          !.status = "offer_made"]
         ELSE [app EXCEPT !.credit_score = Some(credit_score),
                          !.credit_eligibility = "not_eligible",
                          !.status = "rejected"]
    ELSE app

\* SanctionLetterUrl that keeps the spaces of the name
SanctionLetterUrl_KeepSpaces(applicant_name, number) ==
    "https://mock-bank.com/sanction_letters/"
        \o applicant_name \o "_" \o IntToStr(number) \o ".pdf"

SanctionLetterUrl(applicant_name, number) ==
    "https://mock-bank.com/sanction_letters/"
        \o Replace(applicant_name, " ", "_") \o "_" \o IntToStr(number) \o ".pdf"

\* SanctionDue that also accepts on a rejected application
SanctionDue_AfterReject(app, scan) ==
    app.status \in {"offer_made", "rejected"} /\ scan.accept

\* the condition under which the sanction block runs
SanctionDue(app, scan) == app.status = "offer_made" /\ scan.accept

AutoSanction(app, scan, url_number) ==
    IF SanctionDue(app, scan)
    THEN [app EXCEPT !.sanction_letter_generated = TRUE,
                     !.status = "sanctioned",
                     !.sanction_letter_url =
                        Some(SanctionLetterUrl(app.applicant_name[1], url_number))]
    ELSE app

\* the application as the extraction and KYC blocks leave it
BeforeCreditCheck(app, scan) ==
    AutoKYC(ExtractPurpose(ExtractAmount(ExtractName(app, scan), scan), scan))

\* the application as the credit block leaves it, before the sanction block
AfterCreditCheck(app, scan, credit_score, amount_draw, rate_draw) ==
    AutoCreditCheck(BeforeCreditCheck(app, scan), credit_score, amount_draw, rate_draw)

BusinessLogic(app, scan, credit_score, amount_draw, rate_draw, url_number) ==
    AutoSanction(AfterCreditCheck(app, scan, credit_score, amount_draw, rate_draw),
                 scan, url_number)

----------------------------------------------------------------------------
(* State *)

VARIABLES
    sessions,            \* SessionManager._sessions: session id -> session record
    metrics,             \* app/main.py metrics counters
    response,            \* the endpoint called last and what it returned
    request,             \* the endpoint called last and the session id it was given
    credit_trace,        \* the last turn's credit block: its inputs and its result
    appended,            \* per session id: add_message calls since it was created
    cli_app,             \* CLI prototype: State.current_loan_application
    cli_messages,        \* CLI prototype: State.messages
    cli_extracted_info,  \* CLI prototype: State.extracted_info["sanction_letter_url"]
    cli_call,            \* CLI prototype: the tool or router call made last
    session_timestamps,  \* SessionManager._session_timestamps: session id -> time
    now,                 \* datetime.utcnow(), in hours
    returned,            \* the direct call made last and what it returned
    llm_call,            \* outcome of the LLM call of the turn of this step
    pending,             \* chat requests between their user message and their reply
    last_write,          \* the last write to a stored record: by whom, under the lock?
    socket,              \* the WebSocket connection: its state and the frames sent
    graph,               \* CLI prototype: the node the graph run is at, and its steps
    rag                  \* RAGSystem and the persisted collection

api_vars == <<sessions, metrics, response, request, credit_trace, appended>>

cli_vars == <<cli_app, cli_messages, cli_extracted_info, cli_call>>

store_vars == <<session_timestamps, now, returned>>

turn_vars == <<llm_call, pending, last_write>>

ext_vars == <<socket, graph, rag>>

vars == <<sessions, metrics, response, request, credit_trace, appended,
          cli_app, cli_messages, cli_extracted_info, cli_call,
          session_timestamps, now, returned, llm_call, pending, last_write,
          socket, graph, rag>>

----------------------------------------------------------------------------
(* Bounds and inputs *)

\* session ids that uuid4 and the clients of the API produce
SessionIds == {"s1"}

\* session ids given to a SessionManager that is called directly
StoreSessionIds == {"s1", "s2"}

\* session ids of the clients of the session endpoints
EndpointSessionIds == {"s1", "s2", "s3"}

\* chat turns handled before the model stops taking more
MaxMessages == 2

\* sessions created before the model stops creating more
MaxSessionsCreated == 1

UserTexts ==
    { "My name is Rahul Kumar, I need 2 lakh for a car",
      "yes, I accept",
      "I am Priya and I want 50k for business",
      "name is Anil",
      "I need 6 lakhs for my wedding",
      "Yes my name is Asha Rao. I need 5 lakh for education ",
      "I agree, please PROCEED",
      "My name is ?" }

\* ChatMessageRequest.sanitize_message
sanitize_message(v) == StripSpace(v)

\* the message texts that reach the agent
ChatMessages == {sanitize_message(v) : v \in UserTexts}

\* the "message" field of the chat requests that are validated in the model
RequestTexts ==
    {"", "  ", " yes, I accept ", "My name is Rahul Kumar, I need 2 lakh for a car"}

\* ChatMessageRequest: the message after validation, None if it is refused.
\* The length limits of Field are checked on the text as sent; the validator
\* sanitize_message runs on the text that passed them.
ChatMessageRequest(v) ==
    IF Len(v) < 1 \/ Len(v) > 1000 THEN None ELSE Some(sanitize_message(v))

\* Scan of every message text, evaluated once
Scanned ==
    [user_message \in ChatMessages \cup
        {ChatMessageRequest(v)[1] : v \in {t \in RequestTexts : ChatMessageRequest(t) # None}}
     |-> Scan(user_message)] @@ <<>>

\* outcome of the LLM call: a reply, a timeout, or another error
LLMReply == "Sure, how much do you need?"

LLMTimeoutReply == "I apologize, but I'm taking longer than expected. Could you please try again?"

LLMErrorReply == "I apologize, but I encountered an error. Please try again."

LLMOutcomes == {"reply", "timeout", "error"}

AiMessage(llm) ==
    CASE llm = "reply"   -> LLMReply
      [] llm = "timeout" -> LLMTimeoutReply
      [] llm = "error"   -> LLMErrorReply

\* stands for a random draw that the turn does not make
NoDraw == 0

\* random.randint(600, 850)
CreditScoreRange == 600..850

CreditScoreDraws == {s \in {649, 650} : s \in CreditScoreRange}

\* random.randint(300000, 500000)
OfferRange == 300000..500000

OfferDraws == {a \in {300000, 500000} : a \in OfferRange}

\* round(random.uniform(10.0, 12.5), 2), in hundredths
RateRange == 1000..1250

RateDraws == {r \in {1000, 1250} : r \in RateRange}

\* random.randint(1000, 9999)
UrlNumberRange == 1000..9999

UrlNumberDraws == {n \in {1000, 9999} : n \in UrlNumberRange}

\* the draws a turn makes: a credit score iff its credit block runs, an offer
\* amount and a rate iff that block makes an offer, a URL number iff its
\* sanction block runs
CreditScoreDrawsFor(app, scan) ==
    IF CreditCheckDue(BeforeCreditCheck(app, scan))
    THEN CreditScoreDraws ELSE {NoDraw}

OffersFor(app, scan, credit_score) ==
    /\ CreditCheckDue(BeforeCreditCheck(app, scan))
    /\ CreditPasses(BeforeCreditCheck(app, scan), credit_score)

OfferDrawsFor(app, scan, credit_score) ==
    IF OffersFor(app, scan, credit_score) THEN OfferDraws ELSE {NoDraw}

RateDrawsFor(app, scan, credit_score) ==
    IF OffersFor(app, scan, credit_score) THEN RateDraws ELSE {NoDraw}

UrlNumberDrawsFor(app, scan, credit_score, amount_draw, rate_draw) ==
    IF SanctionDue(AfterCreditCheck(app, scan, credit_score, amount_draw, rate_draw),
                   scan)
    THEN UrlNumberDraws ELSE {NoDraw}

----------------------------------------------------------------------------
(* SessionManager (app/core/session.py); S is the _sessions dict *)

create_session(S, session_id) ==
    [id \in (DOMAIN S) \cup {session_id} |->
        IF id = session_id THEN NewSession(session_id) ELSE S[id]]

\* the stored record, or None
get_session(S, session_id) ==
    IF session_id \in DOMAIN S THEN Some(S[session_id]) ELSE None

\* merges the loan application into the stored record; S unchanged if unknown
update_session(S, session_id, loan_app) ==
    IF session_id \notin DOMAIN S THEN S
    ELSE [S EXCEPT ![session_id].loan_application = loan_app]

\* delete_session that keeps the record
delete_session_KeepsRecord(S, session_id) == S

delete_session(S, session_id) ==
    [id \in (DOMAIN S) \ {session_id} |-> S[id]]

\* _session_timestamps[session_id] = datetime.utcnow(), T being the
\* _session_timestamps dict and t the time of the call
Touched(T, session_id, t) ==
    [id \in (DOMAIN T) \cup {session_id} |-> IF id = session_id THEN t ELSE T[id]]

\* get_session that sets the timestamp of any id it is asked for
get_session_touches_AnyId(S, T, session_id, t) == Touched(T, session_id, t)

\* get_session refreshes the timestamp of a stored session only
get_session_touches(S, T, session_id, t) ==
    IF session_id \in DOMAIN S THEN Touched(T, session_id, t) ELSE T

\* update_session returns False for an unknown id, True otherwise
update_session_returns(S, session_id) == session_id \in DOMAIN S

update_session_touches(S, T, session_id, t) ==
    IF session_id \in DOMAIN S THEN Touched(T, session_id, t) ELSE T

\* delete_session returns True for a stored id, False otherwise
delete_session_returns(S, session_id) == session_id \in DOMAIN S

delete_session_forgets(S, T, session_id) ==
    IF session_id \in DOMAIN S
    THEN [id \in (DOMAIN T) \ {session_id} |-> T[id]]
    ELSE T

\* cleanup_expired_sessions that also expires a session touched at the cutoff
Expired_AtCutoff(T, t, max_age_hours) ==
    {sid \in DOMAIN T : T[sid] <= t - max_age_hours}

\* cleanup_expired_sessions: the ids whose timestamp is before the cutoff
Expired(T, t, max_age_hours) ==
    {sid \in DOMAIN T : T[sid] < t - max_age_hours}

\* cleanup_expired_sessions: what is left of a dict without the expired ids
WithoutExpired(D, expired) ==
    [id \in (DOMAIN D) \ expired |-> D[id]]

\* messages[-n:] for n > 0
LastN(messages, n) ==
    SubSeq(messages, Max(1, Len(messages) - n + 1), Len(messages))

\* add_message that trims to the oldest messages instead of the newest
add_message_KeepOldest(S, session_id, role, content) ==
    IF session_id \notin DOMAIN S THEN S
    ELSE LET messages == Append(S[session_id].messages,
                                [role |-> role, content |-> content])
         IN  [S EXCEPT ![session_id].messages =
                IF Len(messages) > MAX_MESSAGE_HISTORY
                THEN SubSeq(messages, 1, MAX_MESSAGE_HISTORY)
                ELSE messages]

add_message(S, session_id, role, content) ==
    IF session_id \notin DOMAIN S THEN S
    ELSE LET messages == Append(S[session_id].messages,
                                [role |-> role, content |-> content])
         IN  [S EXCEPT ![session_id].messages =
                IF Len(messages) > MAX_MESSAGE_HISTORY
                THEN LastN(messages, MAX_MESSAGE_HISTORY)
                ELSE messages]

----------------------------------------------------------------------------
(* LoanSalesAgent.process_message *)

\* up to the LLM call: the user message is appended
TurnBegin(S, session_id, user_message) ==
    add_message(S, session_id, "user", user_message)

\* a turn that skips the business logic when the LLM call failed
TurnEnd_ApologyOnly(S, session_id, user_message, ai_message, credit_score, amount_draw, rate_draw, url_number) ==
    LET S1 == add_message(S, session_id, "assistant", ai_message)
    IN  IF ai_message \in {LLMTimeoutReply, LLMErrorReply}
        THEN S1
        ELSE update_session(S1, session_id,
                BusinessLogic(S1[session_id].loan_application, Scanned[user_message],
                              credit_score, amount_draw, rate_draw, url_number))

\* after the LLM call: the reply is appended, the business logic runs on the
\* stored application and the result is written back
TurnEnd(S, session_id, user_message, ai_message, credit_score, amount_draw, rate_draw, url_number) ==
    LET S1 == add_message(S, session_id, "assistant", ai_message)
    IN  update_session(S1, session_id,
            BusinessLogic(S1[session_id].loan_application, Scanned[user_message],
                          credit_score, amount_draw, rate_draw, url_number))

process_message(S, session_id, user_message, ai_message, credit_score, amount_draw, rate_draw, url_number) ==
    TurnEnd(TurnBegin(S, session_id, user_message), session_id, user_message,
            ai_message, credit_score, amount_draw, rate_draw, url_number)

\* what the credit block of this turn saw and produced
CreditTrace(app, scan, credit_score, amount_draw, rate_draw) ==
    [ ran            |-> CreditCheckDue(BeforeCreditCheck(app, scan)),
      desired_amount |-> BeforeCreditCheck(app, scan).desired_amount,
      credit_score   |-> credit_score,
      app            |-> AfterCreditCheck(app, scan, credit_score,
                                           amount_draw, rate_draw) ]

NoCreditTrace ==
    [ ran |-> FALSE, desired_amount |-> None, credit_score |-> NoDraw,
      app |-> DefaultLoanApplication ]

----------------------------------------------------------------------------
(* CLI prototype: state and tools *)

\* LoanApplication() with its defaults
LoanApplication ==
    [ applicant_name            |-> None,
      desired_amount            |-> None,
      loan_term_months          |-> None,
      purpose                   |-> None,
      kyc_verified              |-> FALSE,
      credit_score              |-> None,
      credit_eligibility        |-> "pending",
      offered_amount            |-> None,
      offered_interest_rate     |-> None,
      sanction_letter_generated |-> FALSE,
      status                    |-> "initiated" ]

\* tool or router called last, whether it raised, and the route it returned
CliCall(tool, raised, route) == [tool |-> tool, raised |-> raised, route |-> route]

SystemMessage(content) == [type |-> "system", content |-> content]

\* str(n) for any integer
SignedIntToStr(n) == IF n < 0 THEN "-" \o IntToStr(0 - n) ELSE IntToStr(n)

\* a float written with one decimal only
FloatToStr_OneDecimal(h) == IntToStr(h \div 100) \o "." \o IntToStr((h % 100) \div 10)

\* repr of a float given in hundredths: 1000 is "10.0", 1125 is "11.25"
FloatToStr(h) ==
    IntToStr(h \div 100) \o "." \o
        (IF h % 10 = 0 THEN IntToStr((h % 100) \div 10)
         ELSE IntToStr((h % 100) \div 10) \o IntToStr(h % 10))

JsonStr(o) == IF o = None THEN "null" ELSE "\"" \o o[1] \o "\""

JsonInt(o) == IF o = None THEN "null" ELSE SignedIntToStr(o[1])

JsonFloat(o) == IF o = None THEN "null" ELSE FloatToStr(o[1])

JsonBool(b) == IF b THEN "true" ELSE "false"

\* LoanApplication.json()
AppJson(app) ==
    "{\"applicant_name\": " \o JsonStr(app.applicant_name)
    \o ", \"desired_amount\": " \o JsonInt(app.desired_amount)
    \o ", \"loan_term_months\": " \o JsonInt(app.loan_term_months)
    \o ", \"purpose\": " \o JsonStr(app.purpose)
    \o ", \"kyc_verified\": " \o JsonBool(app.kyc_verified)
    \o ", \"credit_score\": " \o JsonInt(app.credit_score)
    \o ", \"credit_eligibility\": " \o "\"" \o app.credit_eligibility \o "\""
    \o ", \"offered_amount\": " \o JsonInt(app.offered_amount)
    \o ", \"offered_interest_rate\": " \o JsonFloat(app.offered_interest_rate)
    \o ", \"sanction_letter_generated\": " \o JsonBool(app.sanction_letter_generated)
    \o ", \"status\": " \o "\"" \o app.status \o "\"}"

\* messages held before the model stops calling tools that append one
MaxCliMessages == 3

\* arguments the model passes to the tools
CliNames == {None, Some("Asha Rao")}

CliAmounts == {None, Some(200000)}

CliTerms == {None, Some(24)}

CliPurposes == {None, Some("car")}

\* evaluate_creditworthiness takes any int
CliEvaluateAmounts == {0, 200000, 600000}

\* random.randint(500, 850)
CliCreditScoreRange == 500..850

CliCreditScoreDraws == {s \in {500, 649, 650, 850} : s \in CliCreditScoreRange}

\* the fields update_loan_application_details assigns
UpdatedApplication(app, applicant_name, desired_amount, loan_term_months, purpose) ==
    [app EXCEPT
        !.applicant_name   = IF TruthyStr(applicant_name) THEN applicant_name ELSE @,
        !.desired_amount   = IF TruthyInt(desired_amount) THEN desired_amount ELSE @,
        !.loan_term_months = IF TruthyInt(loan_term_months) THEN loan_term_months ELSE @,
        !.purpose          = IF TruthyStr(purpose) THEN purpose ELSE @]

update_loan_application_details(applicant_name, desired_amount, loan_term_months, purpose) ==
    /\ Len(cli_messages) < MaxCliMessages
    /\ cli_app' = UpdatedApplication(cli_app, applicant_name, desired_amount,
                                     loan_term_months, purpose)
    /\ cli_messages' = Append(cli_messages,
            SystemMessage("Updated loan application: " \o AppJson(cli_app')))
    /\ cli_call' = CliCall("update_loan_application_details", FALSE, "")
    /\ UNCHANGED <<cli_extracted_info, api_vars, ext_vars, store_vars, turn_vars>>

verify_kyc(applicant_name) ==
    /\ Len(cli_messages) < MaxCliMessages
    /\ cli_app' = [cli_app EXCEPT !.kyc_verified = TRUE,
                                  !.status = "credit_check_pending"]
    /\ cli_messages' = Append(cli_messages,
            SystemMessage("KYC for " \o applicant_name \o " successfully verified."))
    /\ cli_call' = CliCall("verify_kyc", FALSE, "")
    /\ UNCHANGED <<cli_extracted_info, api_vars, ext_vars, store_vars, turn_vars>>

\* the application as evaluate_creditworthiness leaves it
Evaluated(app, desired_amount, mock_credit_score, amount_draw, rate_draw) ==
    IF mock_credit_score >= 650 /\ desired_amount <= 500000
    THEN [app EXCEPT !.credit_score = Some(mock_credit_score),
                     !.credit_eligibility = "eligible",
                     !.offered_amount = Some(Min(desired_amount, amount_draw)),
                     !.offered_interest_rate = Some(rate_draw),
                     !.status = "offer_made"]
    ELSE [app EXCEPT !.credit_score = Some(mock_credit_score),
                     !.credit_eligibility = "not_eligible",
                     !.offered_amount = Some(0),
                     !.offered_interest_rate = Some(0),
                     !.status = "rejected"]

evaluate_creditworthiness(desired_amount, mock_credit_score) ==
    /\ Len(cli_messages) < MaxCliMessages
    /\ \E amount_draw \in (IF mock_credit_score >= 650 /\ desired_amount <= 500000
                           THEN OfferDraws ELSE {NoDraw}),
          rate_draw \in (IF mock_credit_score >= 650 /\ desired_amount <= 500000
                         THEN RateDraws ELSE {NoDraw}) :
            cli_app' = Evaluated(cli_app, desired_amount, mock_credit_score,
                                 amount_draw, rate_draw)
    /\ cli_messages' = Append(cli_messages,
            SystemMessage(
                IF cli_app'.credit_eligibility = "eligible"
                THEN "Credit check passed. Score: " \o IntToStr(mock_credit_score)
                        \o ". Offer made."
                ELSE "Credit check failed. Score: " \o IntToStr(mock_credit_score)
                        \o ". Not eligible."))
    /\ cli_call' = CliCall("evaluate_creditworthiness", FALSE, "")
    /\ UNCHANGED <<cli_extracted_info, api_vars, ext_vars, store_vars, turn_vars>>

\* generate_loan_sanction_letter refuses without a positive offer
NoValidOffer(app) == ~TruthyInt(app.offered_amount) \/ app.offered_amount[1] <= 0

generate_loan_sanction_letter(url_number) ==
    /\ Len(cli_messages) < MaxCliMessages
    /\ IF NoValidOffer(cli_app)
       THEN /\ cli_messages' = Append(cli_messages, SystemMessage(
                    "Cannot generate sanction letter: No valid offer made."))
            /\ cli_call' = CliCall("generate_loan_sanction_letter", FALSE, "")
            /\ UNCHANGED <<cli_app, cli_extracted_info>>
       ELSE IF cli_app.applicant_name = None
       \* None.replace raises AttributeError after the flag and the status are set
       THEN /\ cli_app' = [cli_app EXCEPT !.sanction_letter_generated = TRUE,
                                          !.status = "sanctioned"]
            /\ cli_call' = CliCall("generate_loan_sanction_letter", TRUE, "")
            /\ UNCHANGED <<cli_messages, cli_extracted_info>>
       ELSE /\ cli_app' = [cli_app EXCEPT !.sanction_letter_generated = TRUE,
                                          !.status = "sanctioned"]
            /\ cli_messages' = Append(cli_messages, SystemMessage(
                    "Loan sanction letter generated and sent. Access it at: "
                    \o SanctionLetterUrl(cli_app.applicant_name[1], url_number)))
            /\ cli_extracted_info' =
                    Some(SanctionLetterUrl(cli_app.applicant_name[1], url_number))
            /\ cli_call' = CliCall("generate_loan_sanction_letter", FALSE, "")
    /\ UNCHANGED <<api_vars, ext_vars, store_vars, turn_vars>>

\* a router that rejects an application that is not eligible
RoutedStatus_RejectNotEligible(app) ==
    IF app.status = "initiated"
    THEN (IF ~TruthyStr(app.applicant_name) \/ ~TruthyInt(app.desired_amount)
             \/ ~TruthyStr(app.purpose)
          THEN app.status ELSE "kyc_pending")
    ELSE IF app.status = "kyc_pending"
    THEN (IF ~app.kyc_verified THEN app.status ELSE "credit_check_pending")
    ELSE IF app.status = "credit_check_pending"
    THEN (IF app.credit_eligibility = "eligible" THEN "offer_made"
          ELSE IF app.credit_eligibility = "not_eligible" THEN "rejected"
          ELSE app.status)
    ELSE app.status

\* the status decide_next_step leaves
RoutedStatus(app) ==
    IF app.status = "initiated"
    THEN (IF ~TruthyStr(app.applicant_name) \/ ~TruthyInt(app.desired_amount)
             \/ ~TruthyStr(app.purpose)
          THEN app.status ELSE "kyc_pending")
    ELSE IF app.status = "kyc_pending"
    THEN (IF ~app.kyc_verified THEN app.status ELSE "credit_check_pending")
    ELSE IF app.status = "credit_check_pending"
    THEN (IF app.credit_eligibility = "eligible" THEN "offer_made" ELSE app.status)
    ELSE app.status

\* a router that also ends the process of a rejected application
Route_EndOnRejected(app) ==
    IF app.status \in {"sanctioned", "rejected"}
    THEN "end_process" ELSE "conversational_agent"

\* the route decide_next_step returns
Route(app) == IF app.status = "sanctioned" THEN "end_process" ELSE "conversational_agent"

\* the router; state.messages[-1] raises IndexError on an empty history
decide_next_step ==
    /\ IF cli_messages = <<>>
       THEN /\ cli_call' = CliCall("decide_next_step", TRUE, "")
            /\ UNCHANGED cli_app
       ELSE /\ cli_app' = [cli_app EXCEPT !.status = RoutedStatus(cli_app)]
            /\ cli_call' = CliCall("decide_next_step", FALSE, Route(cli_app))
    /\ UNCHANGED <<cli_messages, cli_extracted_info, api_vars, ext_vars, store_vars, turn_vars>>

NextCLI ==
    \/ \E applicant_name \in CliNames, desired_amount \in CliAmounts,
          loan_term_months \in CliTerms, purpose \in CliPurposes :
            update_loan_application_details(applicant_name, desired_amount,
                                            loan_term_months, purpose)
    \/ \E applicant_name \in CliNames \ {None} : verify_kyc(applicant_name[1])
    \/ \E desired_amount \in CliEvaluateAmounts,
          mock_credit_score \in CliCreditScoreDraws :
            evaluate_creditworthiness(desired_amount, mock_credit_score)
    \/ \E url_number \in UrlNumberDraws : generate_loan_sanction_letter(url_number)
    \/ decide_next_step

----------------------------------------------------------------------------
(* API server (app/main.py) *)

\* a direct call of a SessionManager or agent method: the method, its
\* argument (a session id, or max_age_hours), what it returned (the text of
\* the exception if it raised; the ids it cleaned up for
\* cleanup_expired_sessions, which returns nothing), whether it raised
Returned(op, arg, value, raised) ==
    [op |-> op, arg |-> arg, value |-> value, raised |-> raised]

\* a write to a stored session record: the code that wrote, and whether the
\* writer held SessionManager._lock
LastWrite(by, locked) == [by |-> by, locked |-> locked]

\* chat requests that can be in flight together
Requests == {"r1", "r2"}

\* endpoint and the session id of the path or of the body, None without one
Request(op, session_id) == [op |-> op, session_id |-> session_id]

\* endpoint, status code, session id, loan application snapshot, message
\* count, reply or detail text
Response(op, status, session_id, loan_application, message_count, message) ==
    [ op               |-> op,
      status           |-> status,
      session_id       |-> session_id,
      loan_application |-> loan_application,
      message_count    |-> message_count,
      message          |-> message ]

InitMetrics == [total_sessions |-> 0, active_sessions |-> 0, total_messages |-> 0]

\* a creation that is counted in total_sessions only
SessionCreated_TotalOnly(m) ==
    [m EXCEPT !.total_sessions = @ + 1]

SessionCreated(m) ==
    [m EXCEPT !.total_sessions = @ + 1, !.active_sessions = @ + 1]

\* the server at start-up: an empty SessionManager and zeroed metrics
InitServer ==
    /\ sessions = <<>>
    /\ metrics = InitMetrics
    /\ response = Response("none", 0, None, None, 0, "")
    /\ request = Request("none", None)
    /\ credit_trace = NoCreditTrace
    /\ appended = [id \in SessionIds \cup StoreSessionIds \cup EndpointSessionIds |-> 0]
    /\ session_timestamps = <<>>
    /\ now = 0
    /\ returned = Returned("none", "", None, FALSE)
    /\ llm_call = "none"
    /\ pending = [r \in Requests |-> None]
    /\ last_write = LastWrite("none", TRUE)
    /\ socket = [state |-> "none", session_id |-> "", frames |-> <<>>, received |-> 0]
    /\ rag = [collection |-> None, initialized |-> FALSE, starts |-> 0, fault |-> "none"]

\* the CLI prototype at start-up: State()
InitCLI ==
    /\ cli_app = LoanApplication
    /\ cli_messages = <<>>
    /\ cli_extracted_info = None
    /\ cli_call = CliCall("none", FALSE, "")
    /\ graph = [node |-> "initial_greeting", runs |-> 0]

Init == InitServer /\ InitCLI

\* POST /api/v1/sessions: uuid4 yields an id that is not in use
CreateSessionCall(session_id) ==
    /\ session_id \notin DOMAIN sessions
    /\ sessions' = create_session(sessions, session_id)
    /\ request' = Request("create_session", None)
    /\ metrics' = SessionCreated(metrics)
    /\ response' = Response("create_session", 200, Some(session_id), None, 0, "")
    /\ appended' = [appended EXCEPT ![session_id] = 0]
    /\ session_timestamps' = Touched(session_timestamps, session_id, now)
    /\ llm_call' = "none"
    /\ UNCHANGED <<credit_trace, cli_vars, ext_vars, now, returned, pending, last_write>>

CreateSession(session_id) ==
    /\ metrics.total_sessions < MaxSessionsCreated
    /\ CreateSessionCall(session_id)

\* GET /api/v1/sessions/{session_id}
GetSession(session_id) ==
    /\ request' = Request("get_session", Some(session_id))
    /\ response' =
        IF get_session(sessions, session_id) = None
        THEN Response("get_session", 404, None, None, 0, "Session not found")
        ELSE Response("get_session", 200, Some(session_id),
                      Some(sessions[session_id].loan_application),
                      Len(sessions[session_id].messages), "")
    /\ session_timestamps' =
        get_session_touches(sessions, session_timestamps, session_id, now)
    /\ llm_call' = "none"
    /\ UNCHANGED <<sessions, metrics, credit_trace, appended, cli_vars, ext_vars,
                   now, returned, pending, last_write>>

\* DELETE /api/v1/sessions/{session_id}
DeleteSession(session_id) ==
    /\ request' = Request("delete_session", Some(session_id))
    /\ sessions' = delete_session(sessions, session_id)
    /\ metrics' = [metrics EXCEPT !.active_sessions = Max(0, @ - 1)]
    /\ response' = Response("delete_session", 200, None, None, 0,
                          "Session deleted successfully")
    /\ appended' = [appended EXCEPT ![session_id] = 0]
    /\ session_timestamps' =
        delete_session_forgets(sessions, session_timestamps, session_id)
    /\ llm_call' = "none"
    /\ UNCHANGED <<credit_trace, cli_vars, ext_vars, now, returned, pending, last_write>>

\* the turn of POST /api/v1/chat on a stored session, S being the store the
\* turn starts from and m the counters at that point
ChatTurn(S, m, session_id, user_message, llm) ==
    LET app  == S[session_id].loan_application
        scan == Scanned[user_message]
    IN  \E credit_score \in CreditScoreDrawsFor(app, scan) :
        \E amount_draw \in OfferDrawsFor(app, scan, credit_score) :
        \E rate_draw \in RateDrawsFor(app, scan, credit_score) :
        \E url_number \in UrlNumberDrawsFor(app, scan, credit_score,
                                            amount_draw, rate_draw) :
            /\ sessions' = process_message(S, session_id, user_message,
                                AiMessage(llm), credit_score, amount_draw,
                                rate_draw, url_number)
            /\ metrics' = [m EXCEPT !.total_messages = @ + 1]
            /\ response' = Response("send_message", 200, Some(session_id),
                                Some(sessions'[session_id].loan_application),
                                0, AiMessage(llm))
            /\ credit_trace' = CreditTrace(app, scan, credit_score,
                                           amount_draw, rate_draw)
            /\ session_timestamps' = Touched(session_timestamps, session_id, now)
            /\ llm_call' = llm

\* POST /api/v1/chat without a session id: a session is created first
SendMessageNew(session_id, message, llm) ==
    /\ session_id \notin DOMAIN sessions
    /\ metrics.total_sessions < MaxSessionsCreated
    /\ metrics.total_messages < MaxMessages
    /\ ChatTurn(create_session(sessions, session_id), SessionCreated(metrics),
                session_id, message, llm)
    /\ appended' = [appended EXCEPT ![session_id] = 2]
    /\ request' = Request("send_message", None)
    /\ UNCHANGED <<cli_vars, ext_vars, now, returned, pending, last_write>>

\* POST /api/v1/chat with the id of a stored session
SendMessage(session_id, message, llm) ==
    /\ session_id \in DOMAIN sessions
    /\ metrics.total_messages < MaxMessages
    /\ ChatTurn(sessions, metrics, session_id, message, llm)
    /\ appended' = [appended EXCEPT ![session_id] = @ + 2]
    /\ request' = Request("send_message", Some(session_id))
    /\ UNCHANGED <<cli_vars, ext_vars, now, returned, pending, last_write>>

\* POST /api/v1/chat with an id that is not stored: 404
SendMessageUnknown(session_id, message) ==
    /\ session_id \notin DOMAIN sessions
    /\ request' = Request("send_message", Some(session_id))
    /\ response' = Response("send_message", 404, None, None, 0, "Session not found")
    /\ llm_call' = "none"
    /\ UNCHANGED <<sessions, metrics, credit_trace, appended, cli_vars, ext_vars,
                   store_vars, pending, last_write>>

Next ==
    \/ \E session_id \in SessionIds : CreateSession(session_id)
    \/ \E session_id \in SessionIds : GetSession(session_id)
    \/ \E session_id \in SessionIds : DeleteSession(session_id)
    \/ \E session_id \in SessionIds, message \in ChatMessages, llm \in LLMOutcomes :
            SendMessageNew(session_id, message, llm)
    \/ \E session_id \in SessionIds, message \in ChatMessages, llm \in LLMOutcomes :
            SendMessage(session_id, message, llm)
    \/ \E session_id \in SessionIds, message \in ChatMessages :
            SendMessageUnknown(session_id, message)

Spec == Init /\ [][Next]_vars

SpecCLI == Init /\ [][NextCLI]_vars

----------------------------------------------------------------------------
(* API server: the session endpoints with several sessions *)

\* sessions created before the model stops creating more
MaxSessionsOpened == 3

OpenSession(session_id) ==
    /\ metrics.total_sessions < MaxSessionsOpened
    /\ CreateSessionCall(session_id)

NextSessions ==
    \/ \E session_id \in EndpointSessionIds : OpenSession(session_id)
    \/ \E session_id \in EndpointSessionIds : GetSession(session_id)
    \/ \E session_id \in EndpointSessionIds : DeleteSession(session_id)
    \/ \E session_id \in EndpointSessionIds, message \in ChatMessages :
            SendMessageUnknown(session_id, message)

SpecSessions == Init /\ [][NextSessions]_vars

----------------------------------------------------------------------------
(* CLI prototype: the router on any application *)

\* the statuses of LoanApplication.status
Statuses ==
    {"initiated", "kyc_pending", "credit_check_pending", "offer_made",
     "sanctioned", "rejected", "completed"}

\* the applications the router is given
RouterApplications ==
    { [LoanApplication EXCEPT !.status = status,
                              !.credit_eligibility = credit_eligibility,
                              !.kyc_verified = kyc_verified,
                              !.applicant_name = applicant_name,
                              !.desired_amount = desired_amount,
                              !.purpose = purpose] :
        status \in Statuses,
        credit_eligibility \in {"pending", "eligible", "not_eligible"},
        kyc_verified \in BOOLEAN,
        applicant_name \in CliNames,
        desired_amount \in CliAmounts,
        purpose \in CliPurposes }

\* initial_greeting: the greeting is the first message of the history
GreetingMessage ==
    [type |-> "ai", content |-> "Hello! I'm your AI Loan Sales Assistant from NBFC. I can help you find the right personal loan. What kind of loan are you interested in, or how much do you need?"]

InitRouter ==
    /\ InitServer
    /\ cli_app \in RouterApplications
    /\ cli_messages = <<GreetingMessage>>
    /\ cli_extracted_info = None
    /\ cli_call = CliCall("none", FALSE, "")
    /\ graph = [node |-> "initial_greeting", runs |-> 0]

NextRouter == decide_next_step

SpecRouter == InitRouter /\ [][NextRouter]_vars

----------------------------------------------------------------------------
(* CLI prototype: one invocation of the compiled graph on a given state.
   The entry point is initial_greeting; its edge leads to conversational_agent;
   the conditional edge of conversational_agent is decide_next_step, which
   leads back to conversational_agent or to END.  No node runs a tool. *)

\* runs of conversational_agent in one invocation before the graph runtime
\* stops the invocation with GraphRecursionError
MaxGraphSteps == 4

\* the node initial_greeting
initial_greeting ==
    /\ graph.node = "initial_greeting"
    /\ cli_messages' = IF cli_messages = <<>> THEN <<GreetingMessage>> ELSE cli_messages
    /\ graph' = [graph EXCEPT !.node = "conversational_agent"]
    /\ UNCHANGED <<cli_app, cli_extracted_info, cli_call, api_vars, socket, rag,
                   store_vars, turn_vars>>

\* the node conversational_agent, with the conditional edge that follows it:
\* the reply of the LLM is appended, then decide_next_step names the next node
conversational_agent(content) ==
    /\ graph.node = "conversational_agent"
    /\ graph.runs < MaxGraphSteps
    /\ cli_messages' = Append(cli_messages, [type |-> "ai", content |-> content])
    /\ cli_app' = [cli_app EXCEPT !.status = RoutedStatus(cli_app)]
    /\ cli_call' = CliCall("decide_next_step", FALSE, Route(cli_app))
    /\ graph' = [node |-> IF Route(cli_app) = "end_process"
                          THEN "END" ELSE "conversational_agent",
                 runs |-> graph.runs + 1]
    /\ UNCHANGED <<cli_extracted_info, api_vars, socket, rag, store_vars, turn_vars>>

\* the graph runtime gives up an invocation that does not reach END
GraphRecursionError ==
    /\ graph.node = "conversational_agent"
    /\ graph.runs = MaxGraphSteps
    /\ graph' = [graph EXCEPT !.node = "raised"]
    /\ UNCHANGED <<cli_vars, api_vars, socket, rag, store_vars, turn_vars>>

\* chatbot.invoke(state): the state carries any application and no message
InitGraph ==
    /\ InitServer
    /\ cli_app \in RouterApplications
    /\ cli_messages = <<>>
    /\ cli_extracted_info = None
    /\ cli_call = CliCall("none", FALSE, "")
    /\ graph = [node |-> "initial_greeting", runs |-> 0]

NextGraph ==
    \/ initial_greeting
    \/ \E content \in {LLMReply} : conversational_agent(content)
    \/ GraphRecursionError

SpecGraph == InitGraph /\ [][NextGraph]_vars

----------------------------------------------------------------------------
(* SessionManager called directly: create_session and add_message *)

\* add_message calls on one session before the model stops making more
MaxAppends == 60

\* the content of the n-th message appended to a session
NthContent(n) == "message " \o IntToStr(n)

\* user and assistant messages alternate, as in process_message
NthRole(n) == IF n % 2 = 1 THEN "user" ELSE "assistant"

StoreCreate(session_id) ==
    /\ sessions' = create_session(sessions, session_id)
    /\ appended' = [appended EXCEPT ![session_id] = 0]
    /\ session_timestamps' = Touched(session_timestamps, session_id, now)
    /\ returned' = Returned("create_session", session_id, NewSession(session_id), FALSE)
    /\ UNCHANGED <<metrics, response, request, credit_trace, cli_vars, ext_vars, now, turn_vars>>

StoreAddMessage(session_id) ==
    /\ appended[session_id] < MaxAppends
    /\ sessions' = add_message(sessions, session_id,
                               NthRole(appended[session_id] + 1),
                               NthContent(appended[session_id] + 1))
    /\ appended' = IF session_id \in DOMAIN sessions
                   THEN [appended EXCEPT ![session_id] = @ + 1]
                   ELSE appended
    /\ returned' = Returned("add_message", session_id, None, FALSE)
    /\ UNCHANGED <<metrics, response, request, credit_trace, cli_vars, ext_vars,
                   session_timestamps, now, turn_vars>>

NextHistory ==
    \/ \E session_id \in StoreSessionIds : StoreCreate(session_id)
    \/ \E session_id \in StoreSessionIds : StoreAddMessage(session_id)

SpecHistory == Init /\ [][NextHistory]_vars

----------------------------------------------------------------------------
(* SessionManager called directly: sessions, their timestamps and the clock *)

\* hours that pass before the model stops the clock
MaxClock == 3

\* max_age_hours
MaxAgeHours == {0, 1, 2}

\* loan applications written with update_session
StoreUpdates == {[DefaultLoanApplication EXCEPT !.status = "kyc_pending"]}

StoreGet(session_id) ==
    /\ returned' = Returned("get_session", session_id,
                            get_session(sessions, session_id), FALSE)
    /\ session_timestamps' =
        get_session_touches(sessions, session_timestamps, session_id, now)
    /\ UNCHANGED <<sessions, metrics, response, request, credit_trace, appended, cli_vars, ext_vars,
                   now, turn_vars>>

StoreUpdate(session_id, loan_app) ==
    /\ sessions' = update_session(sessions, session_id, loan_app)
    /\ session_timestamps' =
        update_session_touches(sessions, session_timestamps, session_id, now)
    /\ returned' = Returned("update_session", session_id,
                            update_session_returns(sessions, session_id), FALSE)
    /\ UNCHANGED <<metrics, response, request, credit_trace, appended, cli_vars, ext_vars, now, turn_vars>>

StoreDelete(session_id) ==
    /\ sessions' = delete_session(sessions, session_id)
    /\ session_timestamps' =
        delete_session_forgets(sessions, session_timestamps, session_id)
    /\ returned' = Returned("delete_session", session_id,
                            delete_session_returns(sessions, session_id), FALSE)
    /\ UNCHANGED <<metrics, response, request, credit_trace, appended, cli_vars, ext_vars, now, turn_vars>>

StoreCleanup(max_age_hours) ==
    LET expired == Expired(session_timestamps, now, max_age_hours)
    IN  /\ sessions' = WithoutExpired(sessions, expired)
        /\ session_timestamps' = WithoutExpired(session_timestamps, expired)
        /\ returned' = Returned("cleanup_expired_sessions", max_age_hours,
                                expired, FALSE)
        /\ UNCHANGED <<metrics, response, request, credit_trace, appended, cli_vars, ext_vars,
                       now, turn_vars>>

\* an hour passes between two calls
ClockTick ==
    /\ now < MaxClock
    /\ now' = now + 1
    /\ returned' = Returned("none", "", None, FALSE)
    /\ UNCHANGED <<api_vars, ext_vars, cli_vars, session_timestamps, turn_vars>>

NextStore ==
    \/ \E session_id \in StoreSessionIds : StoreCreate(session_id)
    \/ \E session_id \in StoreSessionIds : StoreGet(session_id)
    \/ \E session_id \in StoreSessionIds, loan_app \in StoreUpdates :
            StoreUpdate(session_id, loan_app)
    \/ \E session_id \in StoreSessionIds : StoreDelete(session_id)
    \/ \E max_age_hours \in MaxAgeHours : StoreCleanup(max_age_hours)
    \/ ClockTick

SpecStore == Init /\ [][NextStore]_vars

\* add_message calls per session before the model stops appending
MaxStoreAppends == 1

\* add_message between the other calls of the store
StoreAppend(session_id) ==
    /\ appended[session_id] < MaxStoreAppends
    /\ StoreAddMessage(session_id)

\* every method of the SessionManager, in any order
NextStoreCalls ==
    \/ NextStore
    \/ \E session_id \in StoreSessionIds : StoreAppend(session_id)

SpecStoreCalls == Init /\ [][NextStoreCalls]_vars

----------------------------------------------------------------------------
(* LoanSalesAgent called directly: process_message and stream_response *)

\* turns on one session before the model stops taking more
MaxAgentTurns == 1

\* user texts given to the agent
AgentTexts == {"My name is Rahul Kumar, I need 2 lakh for a car", "yes, I accept"}

\* replies of the LLM, one of a single word; apologies of the agent
AgentReplies == {LLMReply, "Approved.", LLMTimeoutReply}

\* ValueError(f"Session not found: {session_id}")
SessionNotFound(session_id) == "Session not found: " \o session_id

\* a process_message that stores the user message of an unknown session
process_message_missing_Created(S, session_id, user_message) ==
    add_message(create_session(S, session_id), session_id, "user", user_message)

\* process_message looks the session up before it writes anything: the store
\* it leaves when the session is not found
process_message_missing(S, session_id, user_message) == S

\* a stream that marks no chunk as the last one
StreamChunks_NoEnd(session_id, result) ==
    LET words == Split(result.message)
    IN  [i \in 1..Len(words) |->
            [ type             |-> "message",
              content          |-> words[i] \o " ",
              session_id       |-> session_id,
              loan_application |-> None ]]

\* stream_response: one chunk per word of the reply
StreamChunks(session_id, result) ==
    LET words == Split(result.message)
    IN  [i \in 1..Len(words) |->
            [ type             |-> IF i = Len(words) THEN "end" ELSE "message",
              content          |-> words[i] \o " ",
              session_id       |-> session_id,
              loan_application |-> IF i = Len(words)
                                   THEN Some(result.loan_application) ELSE None ]]

\* stream_response: the chunk of a failure
ErrorChunk(session_id, error) ==
    [type |-> "error", content |-> error, session_id |-> session_id]

\* a direct call of process_message or stream_response
AgentCall(op, session_id, user_message, ai_message) ==
    IF get_session(sessions, session_id) = None
    THEN /\ sessions' = process_message_missing(sessions, session_id, user_message)
         /\ returned' =
                IF op = "process_message"
                THEN Returned(op, session_id, SessionNotFound(session_id), TRUE)
                ELSE Returned(op, session_id,
                        <<ErrorChunk(session_id, SessionNotFound(session_id))>>, FALSE)
         /\ UNCHANGED <<session_timestamps, credit_trace, appended>>
    ELSE /\ Len(sessions[session_id].messages) < 2 * MaxAgentTurns
         /\ LET app  == sessions[session_id].loan_application
                scan == Scanned[user_message]
            IN  \E credit_score \in CreditScoreDrawsFor(app, scan) :
                \E amount_draw \in OfferDrawsFor(app, scan, credit_score) :
                \E rate_draw \in RateDrawsFor(app, scan, credit_score) :
                \E url_number \in UrlNumberDrawsFor(app, scan, credit_score,
                                                    amount_draw, rate_draw) :
                    /\ sessions' = process_message(sessions, session_id, user_message,
                                        ai_message, credit_score, amount_draw,
                                        rate_draw, url_number)
                    /\ credit_trace' = CreditTrace(app, scan, credit_score,
                                                   amount_draw, rate_draw)
                    /\ returned' =
                        LET result == [ message          |-> ai_message,
                                        loan_application |->
                                            sessions'[session_id].loan_application ]
                        IN  IF op = "process_message"
                            THEN Returned(op, session_id, result, FALSE)
                            ELSE Returned(op, session_id,
                                          StreamChunks(session_id, result), FALSE)
         /\ session_timestamps' = Touched(session_timestamps, session_id, now)
         /\ appended' = [appended EXCEPT ![session_id] = @ + 2]

AgentProcessMessage(session_id, user_message, ai_message) ==
    /\ AgentCall("process_message", session_id, user_message, ai_message)
    /\ UNCHANGED <<metrics, response, request, cli_vars, ext_vars, now, turn_vars>>

AgentStreamResponse(session_id, user_message, ai_message) ==
    /\ AgentCall("stream_response", session_id, user_message, ai_message)
    /\ UNCHANGED <<metrics, response, request, cli_vars, ext_vars, now, turn_vars>>

NextAgent ==
    \/ \E session_id \in StoreSessionIds : StoreCreate(session_id)
    \/ \E session_id \in StoreSessionIds, user_message \in AgentTexts,
          ai_message \in AgentReplies :
            AgentProcessMessage(session_id, user_message, ai_message)
    \/ \E session_id \in StoreSessionIds, user_message \in AgentTexts,
          ai_message \in AgentReplies :
            AgentStreamResponse(session_id, user_message, ai_message)

SpecAgent == Init /\ [][NextAgent]_vars

\* replies of the LLM without a word: response.content empty or of spaces
BlankReplies == {"", "  "}

\* stream_response on every reply, those without a word included
NextStream ==
    \/ \E session_id \in StoreSessionIds : StoreCreate(session_id)
    \/ \E session_id \in StoreSessionIds, user_message \in AgentTexts,
          ai_message \in AgentReplies \cup BlankReplies :
            AgentStreamResponse(session_id, user_message, ai_message)

SpecStream == Init /\ [][NextStream]_vars

----------------------------------------------------------------------------
(* API server: chat requests that overlap.  A request is suspended while it
   awaits the LLM; from the reply to the response it runs without a
   suspension point. *)

\* the requests that are in flight
InFlight == {r \in Requests : pending[r] # None}

\* no request is between its reply and its response
LoopIdle == \A r \in InFlight : pending[r][1].stage = "llm"

\* send_message up to the await of the LLM call: the session is looked up and
\* the user message is appended under the lock
ChatArrives(r, session_id, user_message) ==
    /\ pending[r] = None
    /\ LoopIdle
    /\ session_id \in DOMAIN sessions
    /\ metrics.total_messages + Cardinality(InFlight) < MaxMessages
    /\ sessions' = TurnBegin(sessions, session_id, user_message)
    /\ session_timestamps' = Touched(session_timestamps, session_id, now)
    /\ appended' = [appended EXCEPT ![session_id] = @ + 1]
    /\ pending' = [pending EXCEPT ![r] =
                        Some([ session_id   |-> session_id,
                               user_message |-> user_message,
                               ai_message   |-> "",
                               stage        |-> "llm" ])]
    /\ last_write' = LastWrite("add_message", TRUE)
    /\ request' = Request("send_message", Some(session_id))
    /\ UNCHANGED <<metrics, response, credit_trace, cli_vars, ext_vars, now, returned, llm_call>>

\* the LLM call ends: the reply or the apology is appended under the lock
ChatReplyAppended(r, llm) ==
    /\ pending[r] # None
    /\ pending[r][1].stage = "llm"
    /\ pending[r][1].session_id \in DOMAIN sessions
    /\ LoopIdle
    /\ sessions' = add_message(sessions, pending[r][1].session_id, "assistant",
                               AiMessage(llm))
    /\ appended' = [appended EXCEPT ![pending[r][1].session_id] = @ + 1]
    /\ pending' = [pending EXCEPT ![r] = Some([@[1] EXCEPT !.ai_message = AiMessage(llm),
                                                           !.stage = "logic"])]
    /\ last_write' = LastWrite("add_message", TRUE)
    /\ llm_call' = llm
    /\ UNCHANGED <<metrics, response, request, credit_trace, cli_vars, ext_vars, store_vars>>

\* _process_business_logic up to its last line: get_session returns the stored
\* record itself, and the assignments to loan_app are made on it, after the
\* lock of get_session was released
ChatBusinessLogic(r) ==
    /\ pending[r] # None
    /\ pending[r][1].stage = "logic"
    /\ LET session_id == pending[r][1].session_id
           app        == sessions[session_id].loan_application
           scan       == Scanned[pending[r][1].user_message]
       IN  \E credit_score \in CreditScoreDrawsFor(app, scan) :
           \E amount_draw \in OfferDrawsFor(app, scan, credit_score) :
           \E rate_draw \in RateDrawsFor(app, scan, credit_score) :
           \E url_number \in UrlNumberDrawsFor(app, scan, credit_score,
                                               amount_draw, rate_draw) :
               LET logic == BusinessLogic(app, scan, credit_score, amount_draw,
                                          rate_draw, url_number)
               IN  /\ sessions' = [sessions EXCEPT ![session_id].loan_application = logic]
                   /\ credit_trace' = CreditTrace(app, scan, credit_score,
                                                  amount_draw, rate_draw)
                   /\ last_write' = IF logic = app THEN last_write
                                    ELSE LastWrite("_process_business_logic", FALSE)
                   /\ session_timestamps' = Touched(session_timestamps, session_id, now)
    /\ pending' = [pending EXCEPT ![r] = Some([@[1] EXCEPT !.stage = "update"])]
    /\ UNCHANGED <<metrics, response, request, appended, cli_vars, ext_vars, now, returned, llm_call>>

\* the last line of _process_business_logic, update_session under the lock,
\* and the rest of the request: the metrics and the response
ChatUpdateSession(r) ==
    /\ pending[r] # None
    /\ pending[r][1].stage = "update"
    /\ LET session_id == pending[r][1].session_id
       IN  /\ sessions' = update_session(sessions, session_id,
                                         sessions[session_id].loan_application)
           /\ session_timestamps' =
                update_session_touches(sessions, session_timestamps, session_id, now)
           /\ response' = Response("send_message", 200, Some(session_id),
                                   Some(sessions[session_id].loan_application),
                                   0, pending[r][1].ai_message)
    /\ metrics' = [metrics EXCEPT !.total_messages = @ + 1]
    /\ last_write' = LastWrite("update_session", TRUE)
    /\ pending' = [pending EXCEPT ![r] = None]
    /\ UNCHANGED <<request, credit_trace, appended, cli_vars, ext_vars, now, returned, llm_call>>

NextConcurrent ==
    \/ \E session_id \in SessionIds : CreateSession(session_id)
    \/ \E r \in Requests, session_id \in SessionIds :
       \E user_message \in AgentTexts \cup {"Yes my name is Asha Rao. I need 5 lakh for education"} :
            ChatArrives(r, session_id, user_message)
    \/ \E r \in Requests, llm \in LLMOutcomes : ChatReplyAppended(r, llm)
    \/ \E r \in Requests : ChatBusinessLogic(r)
    \/ \E r \in Requests : ChatUpdateSession(r)

SpecConcurrent == Init /\ [][NextConcurrent]_vars

----------------------------------------------------------------------------
(* API server: a session deleted while a chat request on it awaits the LLM *)

\* TypeError of session["loan_application"] on the None that get_session returns
NoneNotSubscriptable == "'NoneType' object is not subscriptable"

\* POST /api/v1/sessions; an id of uuid4 is not given out a second time
CreateFreshSession(session_id) ==
    /\ metrics.total_sessions = 0
    /\ CreateSession(session_id)

\* DELETE /api/v1/sessions/{session_id}, between the steps of the event loop
ChatDeleteSession(session_id) ==
    /\ LoopIdle
    /\ DeleteSession(session_id)

\* ChatSessionGone that answers 200 with the reply of the LLM
ChatSessionGone_Apology(r, llm) ==
    /\ pending[r] # None
    /\ pending[r][1].stage = "llm"
    /\ pending[r][1].session_id \notin DOMAIN sessions
    /\ LoopIdle
    /\ sessions' = add_message(sessions, pending[r][1].session_id, "assistant",
                               AiMessage(llm))
    /\ session_timestamps' = get_session_touches(sessions, session_timestamps,
                                                 pending[r][1].session_id, now)
    /\ response' = Response("send_message", 200, Some(pending[r][1].session_id),
                            None, 0, AiMessage(llm))
    /\ request' = Request("send_message", Some(pending[r][1].session_id))
    /\ pending' = [pending EXCEPT ![r] = None]
    /\ llm_call' = llm
    /\ UNCHANGED <<metrics, credit_trace, appended, cli_vars, ext_vars, now, returned, last_write>>

\* the session is gone when the LLM call ends: add_message does nothing,
\* _process_business_logic subscripts the None that get_session returns,
\* process_message re-raises and send_message answers 500 with str(e)
ChatSessionGone(r, llm) ==
    /\ pending[r] # None
    /\ pending[r][1].stage = "llm"
    /\ pending[r][1].session_id \notin DOMAIN sessions
    /\ LoopIdle
    /\ sessions' = add_message(sessions, pending[r][1].session_id, "assistant",
                               AiMessage(llm))
    /\ session_timestamps' = get_session_touches(sessions, session_timestamps,
                                                 pending[r][1].session_id, now)
    /\ response' = Response("send_message", 500, None, None, 0, NoneNotSubscriptable)
    /\ request' = Request("send_message", Some(pending[r][1].session_id))
    /\ pending' = [pending EXCEPT ![r] = None]
    /\ llm_call' = llm
    /\ UNCHANGED <<metrics, credit_trace, appended, cli_vars, ext_vars, now, returned, last_write>>

NextDeleted ==
    \/ \E session_id \in SessionIds : CreateFreshSession(session_id)
    \/ \E r \in Requests, session_id \in SessionIds, user_message \in AgentTexts :
            ChatArrives(r, session_id, user_message)
    \/ \E session_id \in SessionIds : ChatDeleteSession(session_id)
    \/ \E r \in Requests, llm \in LLMOutcomes : ChatReplyAppended(r, llm)
    \/ \E r \in Requests : ChatBusinessLogic(r)
    \/ \E r \in Requests : ChatUpdateSession(r)
    \/ \E r \in Requests, llm \in LLMOutcomes : ChatSessionGone(r, llm)

SpecDeleted == Init /\ [][NextDeleted]_vars

----------------------------------------------------------------------------
(* API server: the WebSocket endpoint, one connection, with the session
   endpoints called meanwhile *)

\* client messages one connection receives before the model stops receiving
MaxSocketMessages == 3

\* texts the client sends in the "message" field
SocketTexts == AgentTexts \cup {"  "}

\* the connection: "none" before accept, then "open", then "closed"; the
\* types of the frames sent; the client messages received
Socket(state, session_id, frames, received) ==
    [state |-> state, session_id |-> session_id, frames |-> frames, received |-> received]

FrameTypes(chunks) == [i \in 1..Len(chunks) |-> chunks[i].type]

\* websocket_endpoint up to the loop: accept, then the session is looked up
\* and created with a greeting frame when it is not stored
WebSocketAccept(session_id) ==
    /\ socket.state = "none"
    /\ IF get_session(sessions, session_id) = None
       THEN /\ sessions' = create_session(sessions, session_id)
            /\ metrics' = SessionCreated(metrics)
            /\ appended' = [appended EXCEPT ![session_id] = 0]
            /\ session_timestamps' = Touched(session_timestamps, session_id, now)
            /\ socket' = Socket("open", session_id, <<"message">>, 0)
       ELSE /\ session_timestamps' =
                    get_session_touches(sessions, session_timestamps, session_id, now)
            /\ socket' = Socket("open", session_id, <<>>, 0)
            /\ UNCHANGED <<sessions, metrics, appended>>
    /\ UNCHANGED <<response, request, credit_trace, cli_vars, graph, rag, now, returned,
                   turn_vars>>

\* one pass of the loop: a message is received; a blank one is skipped, any
\* other is streamed, chunk by chunk, and counted
WebSocketMessage(message, ai_message) ==
    /\ socket.state = "open"
    /\ socket.received < MaxSocketMessages
    /\ IF StripSpace(message) = ""
       THEN /\ socket' = [socket EXCEPT !.received = @ + 1]
            /\ UNCHANGED <<sessions, metrics, credit_trace, appended,
                           session_timestamps, returned>>
       ELSE /\ AgentCall("stream_response", socket.session_id, message, ai_message)
            /\ socket' = [socket EXCEPT !.received = @ + 1,
                                        !.frames = @ \o FrameTypes(returned'.value)]
            /\ metrics' = [metrics EXCEPT !.total_messages = @ + 1]
    /\ UNCHANGED <<response, request, cli_vars, graph, rag, now, turn_vars>>

\* receive_json or data.get raises (the text is not JSON, or not an object):
\* except Exception sends one error frame, finally closes
WebSocketError ==
    /\ socket.state = "open"
    /\ socket' = [socket EXCEPT !.state = "closed", !.frames = Append(@, "error")]
    /\ UNCHANGED <<api_vars, cli_vars, graph, rag, store_vars, turn_vars>>

\* the client goes away: WebSocketDisconnect, finally closes
WebSocketDisconnect ==
    /\ socket.state = "open"
    /\ socket' = [socket EXCEPT !.state = "closed"]
    /\ UNCHANGED <<api_vars, cli_vars, graph, rag, store_vars, turn_vars>>

NextSocket ==
    \/ \E session_id \in SessionIds : CreateSession(session_id)
    \/ \E session_id \in SessionIds : DeleteSession(session_id)
    \/ \E session_id \in SessionIds : WebSocketAccept(session_id)
    \/ \E message \in SocketTexts, ai_message \in AgentReplies :
            WebSocketMessage(message, ai_message)
    \/ WebSocketError
    \/ WebSocketDisconnect

SpecSocket == Init /\ [][NextSocket]_vars

----------------------------------------------------------------------------
(* Knowledge retrieval (app/core/rag.py).  rag.collection is the collection
   loan_sales_rag_collection in the persistence directory, which outlives the
   process: None while it does not exist, else the ids it holds.
   rag.initialized is RAGSystem._initialized of the running process, and
   rag.fault the failure that the library calls of the last call met. *)

\* process starts before the model stops starting more
MaxStarts == 3

\* the corpus, each text named by its first words
LOAN_PRODUCTS_DATA ==
    << "Personal Loan", "Home Loan", "Education Loan", "Car Loan",
       "Eligibility Criteria", "KYC Documents", "Credit Score Impact",
       "Loan Sanction Process" >>

\* ids = [f"loan_product_{i}" for i in range(len(LOAN_PRODUCTS_DATA))]
CorpusIds == [i \in 1..Len(LOAN_PRODUCTS_DATA) |-> "loan_product_" \o IntToStr(i - 1)]

\* the failures a start can meet: the embedding model does not load; or, when
\* the collection has to be created, encode or collection.add fails
InitializeFaults(R) ==
    {"none", "embedder"} \cup (IF R.collection = None THEN {"index"} ELSE {})

\* a process start: RAGSystem() and initialize()
initialize(R, fault) ==
    IF fault = "embedder"
    THEN [R EXCEPT !.initialized = FALSE, !.fault = fault, !.starts = @ + 1]
    ELSE IF R.collection # None
    THEN [R EXCEPT !.initialized = TRUE, !.fault = fault, !.starts = @ + 1]
    ELSE IF fault = "index"
    THEN [R EXCEPT !.collection = Some(<<>>), !.initialized = FALSE,
                   !.fault = fault, !.starts = @ + 1]
    ELSE [R EXCEPT !.collection = Some(CorpusIds), !.initialized = TRUE,
                   !.fault = fault, !.starts = @ + 1]

\* the documents a query yields: at most top_k of those stored, from the
\* place first on, which the index chooses
QueryDocuments(R, top_k, first) ==
    LET ids == R.collection[1]
    IN  SubSeq(ids, first, Min(Len(ids), first + top_k - 1))

QuerySources(documents) ==
    [i \in 1..Len(documents) |-> "Internal Knowledge Base - Document " \o IntToStr(i)]

\* a query that lets a failure of the embedder or of the index through
query_Propagates(R, top_k, fault, first) ==
    IF ~R.initialized
    THEN Returned("query", top_k, "RAG system not initialized", TRUE)
    ELSE IF fault # "none"
    THEN Returned("query", top_k, fault, TRUE)
    ELSE LET documents == QueryDocuments(R, top_k, first)
         IN  Returned("query", top_k,
                      [documents |-> documents, sources |-> QuerySources(documents)],
                      FALSE)

\* RAGSystem.query: what it returns or raises
query(R, top_k, fault, first) ==
    IF ~R.initialized
    THEN Returned("query", top_k, "RAG system not initialized", TRUE)
    ELSE IF fault # "none"
    THEN Returned("query", top_k, [documents |-> <<>>, sources |-> <<>>], FALSE)
    ELSE LET documents == QueryDocuments(R, top_k, first)
         IN  Returned("query", top_k,
                      [documents |-> documents, sources |-> QuerySources(documents)],
                      FALSE)

\* the server starts (or starts again): lifespan calls initialize
RAGInitialize(fault) ==
    /\ rag.starts < MaxStarts
    /\ fault \in InitializeFaults(rag)
    /\ rag' = initialize(rag, fault)
    /\ returned' = Returned("initialize", "", fault, fault # "none")
    /\ UNCHANGED <<api_vars, cli_vars, socket, graph, session_timestamps, now, turn_vars>>

\* a call of query; the fault is one the call meets once it runs
RAGQuery(top_k, fault, first) ==
    /\ first <= Max(1, (IF rag.collection = None THEN 0
                        ELSE Len(rag.collection[1])) - top_k + 1)
    /\ rag' = [rag EXCEPT !.fault = IF rag.initialized THEN fault ELSE "none"]
    /\ returned' = query(rag, top_k, fault, first)
    /\ UNCHANGED <<api_vars, cli_vars, socket, graph, session_timestamps, now, turn_vars>>

\* the server shuts down: lifespan calls cleanup
RAGCleanup ==
    /\ rag' = [rag EXCEPT !.initialized = FALSE, !.fault = "none"]
    /\ returned' = Returned("cleanup", "", None, FALSE)
    /\ UNCHANGED <<api_vars, cli_vars, socket, graph, session_timestamps, now, turn_vars>>

NextRAG ==
    \/ \E fault \in {"none", "embedder", "index"} : RAGInitialize(fault)
    \/ \E top_k \in {1, 3, 10}, fault \in {"none", "embedder", "index"},
          first \in 1..Len(LOAN_PRODUCTS_DATA) :
            RAGQuery(top_k, fault, first)
    \/ RAGCleanup

SpecRAG == Init /\ [][NextRAG]_vars

----------------------------------------------------------------------------
(* API server: POST /api/v1/chat from the request body on.  The body is
   parsed into a ChatMessageRequest before send_message runs; a body that is
   refused is answered with 422 and send_message does not run. *)

ChatRequestRefused(text) ==
    /\ ChatMessageRequest(text) = None
    /\ request' = Request("send_message", None)
    /\ response' = Response("send_message", 422, None, None, 0, "")
    /\ llm_call' = "none"
    /\ UNCHANGED <<sessions, metrics, credit_trace, appended, cli_vars, ext_vars,
                   store_vars, pending, last_write>>

ChatRequestNew(session_id, text, llm) ==
    /\ ChatMessageRequest(text) # None
    /\ SendMessageNew(session_id, ChatMessageRequest(text)[1], llm)

ChatRequest(session_id, text, llm) ==
    /\ ChatMessageRequest(text) # None
    /\ SendMessage(session_id, ChatMessageRequest(text)[1], llm)

NextRequest ==
    \/ \E text \in RequestTexts : ChatRequestRefused(text)
    \/ \E session_id \in SessionIds, text \in RequestTexts, llm \in LLMOutcomes :
            ChatRequestNew(session_id, text, llm)
    \/ \E session_id \in SessionIds, text \in RequestTexts, llm \in LLMOutcomes :
            ChatRequest(session_id, text, llm)
    \/ \E session_id \in SessionIds : DeleteSession(session_id)

SpecRequest == Init /\ [][NextRequest]_vars

----------------------------------------------------------------------------
(* API server: the error envelope.  An endpoint call either runs as in the
   sections above or meets an exception that the endpoint did not expect. *)

\* text of the unexpected exception: the ValueError of process_message on a
\* session deleted meanwhile, the TypeError of subscripting None
ExceptionTexts == {SessionNotFound("s1"), "'NoneType' object is not subscriptable"}

\* the endpoints that turn an exception into HTTPException(500, str(e))
GuardedEndpoints == {"create_session", "get_session", "delete_session", "send_message",
                     "query_knowledge_base"}

HTTPException(status_code, detail) == [status_code |-> status_code, detail |-> detail]

\* str(exc) of an HTTPException: "<status_code>: <detail>"
HTTPExceptionStr(exc) == IntToStr(exc.status_code) \o ": " \o exc.detail

\* ErrorResponse and the status of the JSONResponse, with settings.DEBUG at
\* the time
Envelope(status_code, error, detail, debug) ==
    [status_code |-> status_code, error |-> error, detail |-> detail, debug |-> debug]

http_exception_handler(exc, debug) ==
    Envelope(exc.status_code, exc.detail, Some(HTTPExceptionStr(exc)), debug)

general_exception_handler(text, debug) ==
    Envelope(500, "Internal server error", IF debug THEN Some(text) ELSE None, debug)

\* except Exception as e: raise HTTPException(status_code=500, detail=str(e))
EndpointRaises(endpoint, text, debug) ==
    /\ request' = Request(endpoint, None)
    /\ returned' = Returned("http_exception_handler", text,
                            http_exception_handler(HTTPException(500, text), debug), FALSE)
    /\ response' = Response(endpoint, 500, None, None, 0, returned'.value.error)
    /\ llm_call' = "none"
    /\ UNCHANGED <<sessions, metrics, credit_trace, appended, cli_vars, ext_vars,
                   session_timestamps, now, pending, last_write>>

\* an exception outside the try of an endpoint reaches the handler of Exception
UnhandledRaises(text, debug) ==
    /\ request' = Request("none", None)
    /\ returned' = Returned("general_exception_handler", text,
                            general_exception_handler(text, debug), FALSE)
    /\ response' = Response("none", 500, None, None, 0, returned'.value.error)
    /\ llm_call' = "none"
    /\ UNCHANGED <<sessions, metrics, credit_trace, appended, cli_vars, ext_vars,
                   session_timestamps, now, pending, last_write>>

NextErrors ==
    \/ \E session_id \in StoreSessionIds : OpenSession(session_id)
    \/ \E session_id \in StoreSessionIds : GetSession(session_id)
    \/ \E session_id \in StoreSessionIds : DeleteSession(session_id)
    \/ \E endpoint \in GuardedEndpoints, text \in ExceptionTexts, debug \in BOOLEAN :
            EndpointRaises(endpoint, text, debug)
    \/ \E text \in ExceptionTexts, debug \in BOOLEAN : UnhandledRaises(text, debug)

SpecErrors == Init /\ [][NextErrors]_vars

----------------------------------------------------------------------------
(* API server: the loan application in a response.  send_message builds
   a LoanApplicationResponse from result["loan_application"]; the response is
   written as JSON, field by field, and a client reads the fields back. *)

\* the characters JSON escapes in a string: the quote and the backslash
RECURSIVE JsonEscape(_)
JsonEscape(s) ==
    IF s = "" THEN ""
    ELSE (IF Head(s) \in {"\"", "\\"} THEN "\\" \o Head(s) ELSE Head(s))
            \o JsonEscape(Tail(s))

RECURSIVE JsonUnescape(_)
JsonUnescape(t) ==
    IF t = "" THEN ""
    ELSE IF Head(t) = "\\" /\ Len(t) >= 2
    THEN SubSeq(t, 2, 2) \o JsonUnescape(SubSeq(t, 3, Len(t)))
    ELSE Head(t) \o JsonUnescape(Tail(t))

JsonString(o) == IF o = None THEN "null" ELSE "\"" \o JsonEscape(o[1]) \o "\""

ParseString(t) == IF t = "null" THEN None ELSE Some(JsonUnescape(SubSeq(t, 2, Len(t) - 1)))

ParseInt(t) ==
    IF t = "null" THEN None
    ELSE IF Head(t) = "-" THEN Some(0 - StrToInt(Tail(t)))
    ELSE Some(StrToInt(t))

\* a float, read into hundredths
ParseFloat(t) ==
    IF t = "null" THEN None
    ELSE LET dot      == CHOOSE i \in 1..Len(t) : SubSeq(t, i, i) = "."
             fraction == SubSeq(t, dot + 1, Len(t))
         IN  Some(100 * StrToInt(SubSeq(t, 1, dot - 1))
                  + (IF Len(fraction) = 1 THEN 10 * StrToInt(fraction)
                     ELSE StrToInt(SubSeq(fraction, 1, 2))))

\* LoanApplicationResponse built from the dict d: the twelve fields, by name
LoanApplicationResponse(d) ==
    [ applicant_name            |-> d.applicant_name,
      desired_amount            |-> d.desired_amount,
      loan_term_months          |-> d.loan_term_months,
      purpose                   |-> d.purpose,
      kyc_verified              |-> d.kyc_verified,
      credit_score              |-> d.credit_score,
      credit_eligibility        |-> d.credit_eligibility,
      offered_amount            |-> d.offered_amount,
      offered_interest_rate     |-> d.offered_interest_rate,
      sanction_letter_generated |-> d.sanction_letter_generated,
      sanction_letter_url       |-> d.sanction_letter_url,
      status                    |-> d.status ]

\* the JSON text of every field of the response
ResponseJson(r) ==
    [ applicant_name            |-> JsonString(r.applicant_name),
      desired_amount            |-> JsonInt(r.desired_amount),
      loan_term_months          |-> JsonInt(r.loan_term_months),
      purpose                   |-> JsonString(r.purpose),
      kyc_verified              |-> JsonBool(r.kyc_verified),
      credit_score              |-> JsonInt(r.credit_score),
      credit_eligibility        |-> JsonString(Some(r.credit_eligibility)),
      offered_amount            |-> JsonInt(r.offered_amount),
      offered_interest_rate     |-> JsonFloat(r.offered_interest_rate),
      sanction_letter_generated |-> JsonBool(r.sanction_letter_generated),
      sanction_letter_url       |-> JsonString(r.sanction_letter_url),
      status                    |-> JsonString(Some(r.status)) ]

\* the fields read back from their JSON text
ParseResponse(j) ==
    [ applicant_name            |-> ParseString(j.applicant_name),
      desired_amount            |-> ParseInt(j.desired_amount),
      loan_term_months          |-> ParseInt(j.loan_term_months),
      purpose                   |-> ParseString(j.purpose),
      kyc_verified              |-> j.kyc_verified = "true",
      credit_score              |-> ParseInt(j.credit_score),
      credit_eligibility        |-> ParseString(j.credit_eligibility)[1],
      offered_amount            |-> ParseInt(j.offered_amount),
      offered_interest_rate     |-> ParseFloat(j.offered_interest_rate),
      sanction_letter_generated |-> j.sanction_letter_generated = "true",
      sanction_letter_url       |-> ParseString(j.sanction_letter_url),
      status                    |-> ParseString(j.status)[1] ]

\* the loan applications of stored sessions: what create_session stores and
\* what the blocks of _process_business_logic assign
ResponseApplications ==
    { [DefaultLoanApplication EXCEPT
            !.applicant_name = applicant_name,
            !.desired_amount = desired_amount,
            !.purpose = purpose,
            !.kyc_verified = applicant_name # None,
            !.credit_score = credit[1],
            !.credit_eligibility = credit[2],
            !.offered_amount = credit[3],
            !.offered_interest_rate = credit[4],
            !.sanction_letter_generated = sanction_letter_url # None,
            !.sanction_letter_url = sanction_letter_url,
            !.status = status] :
        applicant_name \in {None, Some("Rahul Kumar"), Some("\"Asha\" Rao\\"), Some("")},
        desired_amount \in {None, Some(50000), Some(200000)},
        purpose \in {None, Some("Car")},
        credit \in { <<None, "pending", None, None>>,
                     <<Some(649), "not_eligible", None, None>>,
                     <<Some(650), "eligible", Some(200000), Some(1000)>>,
                     <<Some(850), "eligible", Some(50000), Some(1125)>>,
                     <<Some(700), "eligible", Some(200000), Some(1250)>> },
        sanction_letter_url \in {None, Some(SanctionLetterUrl("Rahul Kumar", 1000))},
        status \in Statuses }

\* the first response of a run: the application is built into the model, written and read back
LoanApplicationRoundTrip(app) ==
    /\ response.op = "none"
    /\ request' = Request("send_message", None)
    /\ response' = Response("send_message", 200, None, Some(app), 0, "")
    /\ returned' = Returned("LoanApplicationResponse", "",
                            ParseResponse(ResponseJson(LoanApplicationResponse(app))), FALSE)
    /\ llm_call' = "none"
    /\ UNCHANGED <<sessions, metrics, credit_trace, appended, cli_vars, ext_vars,
                   session_timestamps, now, pending, last_write>>

NextRoundTrip == \E app \in ResponseApplications : LoanApplicationRoundTrip(app)

SpecRoundTrip == Init /\ [][NextRoundTrip]_vars

----------------------------------------------------------------------------
(* Properties of the API agent, checked under Spec *)

StoredApp(session_id) == sessions[session_id].loan_application

\* a chat turn was processed on a stored session in this step
TurnOn(session_id) ==
    /\ session_id \in DOMAIN sessions
    /\ session_id \in DOMAIN sessions'
    /\ appended'[session_id] = appended[session_id] + 2

\* the user text of the turn that was processed last on the session
LastUserText(S, session_id) ==
    S[session_id].messages[Len(S[session_id].messages) - 1].content

\* C1: in every reachable state of the API agent, a stored application has
\* sanction_letter_generated only if its status is sanctioned and its
\* offered_amount is set and positive.
C1_SanctionOnlyWithOffer ==
    \A session_id \in DOMAIN sessions :
        StoredApp(session_id).sanction_letter_generated =>
            /\ StoredApp(session_id).status = "sanctioned"
            /\ StoredApp(session_id).offered_amount # None
            /\ StoredApp(session_id).offered_amount[1] > 0

C1_Witness ==
    \E session_id \in DOMAIN sessions :
        /\ StoredApp(session_id).sanction_letter_generated
        /\ StoredApp(session_id).sanction_letter_url # None

\* C2: in every reachable state of the API agent, an application whose
\* credit_eligibility is eligible has a positive offered_amount and a positive
\* offered_interest_rate.
C2_EligibleHasOffer ==
    \A session_id \in DOMAIN sessions :
        StoredApp(session_id).credit_eligibility = "eligible" =>
            /\ StoredApp(session_id).offered_amount # None
            /\ StoredApp(session_id).offered_amount[1] > 0
            /\ StoredApp(session_id).offered_interest_rate # None
            /\ StoredApp(session_id).offered_interest_rate[1] > 0

C2_Witness ==
    \E session_id \in DOMAIN sessions :
        /\ StoredApp(session_id).credit_eligibility = "eligible"
        /\ StoredApp(session_id).status = "offer_made"

\* C5: when the credit block of a turn runs with desired amount A and drawn
\* score S, then if S >= 650 and A <= 500,000 it leaves eligibility eligible,
\* status offer_made, 0 < offered_amount <= A and a rate within [10.0, 12.5];
\* otherwise it leaves eligibility not_eligible, status rejected and both offer
\* fields unset.  The snapshot the turn returns carries the same eligibility,
\* score and offer fields.
C5_CreditEvaluation ==
    credit_trace.ran =>
        LET A   == credit_trace.desired_amount[1]
            S   == credit_trace.credit_score
            app == credit_trace.app
        IN  /\ IF S >= 650 /\ A <= 500000
               THEN /\ app.credit_eligibility = "eligible"
                    /\ app.status = "offer_made"
                    /\ app.offered_amount # None
                    /\ 0 < app.offered_amount[1]
                    /\ app.offered_amount[1] <= A
                    /\ app.offered_interest_rate # None
                    /\ 1000 <= app.offered_interest_rate[1]
                    /\ app.offered_interest_rate[1] <= 1250
               ELSE /\ app.credit_eligibility = "not_eligible"
                    /\ app.status = "rejected"
                    /\ app.offered_amount = None
                    /\ app.offered_interest_rate = None
            /\ (response.op = "send_message" /\ response.status = 200) =>
                /\ response.loan_application[1].credit_eligibility = app.credit_eligibility
                /\ response.loan_application[1].credit_score = Some(S)
                /\ response.loan_application[1].desired_amount = Some(A)
                /\ response.loan_application[1].offered_amount = app.offered_amount
                /\ response.loan_application[1].offered_interest_rate
                        = app.offered_interest_rate

\* an offer below the desired amount at the largest amount that passes
C5_Witness ==
    /\ credit_trace.ran
    /\ credit_trace.desired_amount = Some(500000)
    /\ credit_trace.app.credit_eligibility = "eligible"
    /\ credit_trace.app.offered_amount = Some(300000)

\* the texts that yield a name, an amount and a purpose, with what they yield
C6_FullTexts ==
    { [ text    |-> "My name is Rahul Kumar, I need 2 lakh for a car",
        name    |-> "Rahul Kumar",
        amount  |-> 200000,
        purpose |-> "Car" ],
      [ text    |-> "Yes my name is Asha Rao. I need 5 lakh for education",
        name    |-> "Asha Rao",
        amount  |-> 500000,
        purpose |-> "Education" ] }

C7_AcceptTexts ==
    { "yes, I accept",
      "I agree, please PROCEED",
      "Yes my name is Asha Rao. I need 5 lakh for education" }

\* applicant names with spaces as underscores
C7_NameInUrl ==
    { <<"Rahul Kumar", "Rahul_Kumar">>, <<"Asha Rao", "Asha_Rao">>, <<"Anil", "Anil">> }

\* https://mock-bank.com/sanction_letters/{name}_{4-digit number}.pdf
C7_UrlForm(url, applicant_name) ==
    \E pair \in C7_NameInUrl :
        LET stem == "https://mock-bank.com/sanction_letters/" \o pair[2] \o "_"
        IN  /\ pair[1] = applicant_name
            /\ Len(url) = Len(stem) + 8
            /\ SubSeq(url, 1, Len(stem)) = stem
            /\ \A i \in (Len(stem) + 1)..(Len(stem) + 4) : IsDigit(CharAt(url, i))
            /\ CharAt(url, Len(stem) + 1) # "0"
            /\ SubSeq(url, Len(stem) + 5, Len(url)) = ".pdf"

\* C7: a turn that starts with status offer_made and a positive offered_amount
\* ends, when the lower-cased text contains yes, accept, agree or proceed, with
\* status sanctioned, sanction_letter_generated true and a sanction_letter_url
\* of the documented form; when the text contains none of them it leaves the
\* status offer_made and both sanction fields unchanged.
C7_AcceptSanctions ==
    [][ \A session_id \in SessionIds :
          ( /\ TurnOn(session_id)
            /\ StoredApp(session_id).status = "offer_made"
            /\ StoredApp(session_id).offered_amount # None
            /\ StoredApp(session_id).offered_amount[1] > 0 )
          =>  IF LastUserText(sessions', session_id) \in C7_AcceptTexts
              THEN /\ StoredApp(session_id)'.status = "sanctioned"
                   /\ StoredApp(session_id)'.sanction_letter_generated
                   /\ StoredApp(session_id)'.sanction_letter_url # None
                   /\ C7_UrlForm(StoredApp(session_id)'.sanction_letter_url[1],
                                 StoredApp(session_id).applicant_name[1])
              ELSE /\ StoredApp(session_id)'.status = "offer_made"
                   /\ StoredApp(session_id)'.sanction_letter_generated
                        = StoredApp(session_id).sanction_letter_generated
                   /\ StoredApp(session_id)'.sanction_letter_url
                        = StoredApp(session_id).sanction_letter_url
      ]_vars

\* the offer of a first turn accepted in the second
C7_Witness ==
    \E session_id \in DOMAIN sessions :
        /\ appended[session_id] = 4
        /\ sessions[session_id].messages[3].content = "yes, I accept"
        /\ StoredApp(session_id).status = "sanctioned"
        /\ StoredApp(session_id).applicant_name = Some("Rahul Kumar")

\* C9: a session fetched after its creation and before any message was
\* processed on it has status initiated, credit_eligibility pending,
\* kyc_verified and sanction_letter_generated false, every optional field
\* absent, and zero messages.
C9_FreshSessionFetched ==
    ( /\ response.op = "get_session"
      /\ response.status = 200
      /\ appended[response.session_id[1]] = 0 )
    =>  /\ response.message_count = 0
        /\ response.loan_application =
            Some([ applicant_name            |-> None,
                   desired_amount            |-> None,
                   loan_term_months          |-> None,
                   purpose                   |-> None,
                   kyc_verified              |-> FALSE,
                   credit_score              |-> None,
                   credit_eligibility        |-> "pending",
                   offered_amount            |-> None,
                   offered_interest_rate     |-> None,
                   sanction_letter_generated |-> FALSE,
                   sanction_letter_url       |-> None,
                   status                    |-> "initiated" ])

C9_Witness ==
    /\ response.op = "get_session"
    /\ response.status = 200
    /\ appended[response.session_id[1]] = 0
    /\ metrics.total_sessions > 0

\* the fields the business logic sets at most once, and whether one holds a value
SetOnceFields ==
    {"applicant_name", "desired_amount", "purpose", "credit_score",
     "offered_amount", "offered_interest_rate"}

\* C29: once applicant_name, desired_amount, purpose, kyc_verified,
\* credit_score, credit_eligibility (other than pending), offered_amount or
\* offered_interest_rate of a stored application holds a value, no later turn
\* changes it
C29_SetFieldsKept ==
    [][\A session_id \in DOMAIN sessions \cap DOMAIN sessions' :
        LET app   == sessions[session_id].loan_application
            after == sessions'[session_id].loan_application
        IN  /\ \A f \in SetOnceFields : app[f] # None => after[f] = app[f]
            /\ app.kyc_verified => after.kyc_verified
            /\ app.credit_eligibility # "pending" =>
                    after.credit_eligibility = app.credit_eligibility]_vars

\* the message texts that hold the token "is" together with a name trigger
C30_NameTexts ==
    {m \in ChatMessages :
        /\ \E i \in 1..Len(Split(m)) : Split(m)[i] = "is"
        /\ \/ Contains(Lower(m), "name is")
           \/ Contains(Lower(m), "i am")
           \/ Contains(Lower(m), "i'm")}

\* C30: as long as no user message of a session holds the token "is"
\* together with one of the triggers "name is", "i am", "i'm", the stored
\* application has no name, is not KYC-verified, has status initiated, and no
\* credit evaluation or offer has been made
C30_NoNameWithoutIs ==
    \A session_id \in DOMAIN sessions :
        LET messages == sessions[session_id].messages
            app      == sessions[session_id].loan_application
        IN  (\A i \in 1..Len(messages) :
                messages[i].role = "user" => messages[i].content \notin C30_NameTexts)
            => /\ app.applicant_name = None
               /\ ~app.kyc_verified
               /\ app.status = "initiated"
               /\ app.credit_score = None
               /\ app.credit_eligibility = "pending"
               /\ app.offered_amount = None
               /\ app.offered_interest_rate = None

\* a turn with the trigger "i am" and no token "is" has extracted the amount
\* and the purpose, and the application has no name
C30_Witness ==
    /\ "s1" \in DOMAIN sessions
    /\ Len(sessions["s1"].messages) >= 2
    /\ \A i \in 1..Len(sessions["s1"].messages) :
            sessions["s1"].messages[i].content \notin C30_NameTexts
    /\ sessions["s1"].messages[1].content = "I am Priya and I want 50k for business"
    /\ sessions["s1"].loan_application.desired_amount = Some(50000)
    /\ sessions["s1"].loan_application.purpose = Some("Business")
    /\ sessions["s1"].loan_application.applicant_name = None

----------------------------------------------------------------------------
(* Properties of the CLI prototype, checked under SpecCLI *)

\* C3: after any sequence of tool invocations and router evaluations,
\* sanction_letter_generated is true only if status is sanctioned and
\* offered_amount is positive.  The tools do not keep it: verify_kyc and
\* evaluate_creditworthiness overwrite the status, and the offer, of an
\* application whose letter was generated.
C3_CliSanctionOnlyWithOffer ==
    cli_app.sanction_letter_generated =>
        /\ cli_app.status = "sanctioned"
        /\ cli_app.offered_amount # None
        /\ cli_app.offered_amount[1] > 0

\* C4: after evaluate_creditworthiness with any integer desired_amount,
\* credit_eligibility eligible implies a positive offered_amount and a positive
\* offered_interest_rate.  The tool does not check the sign of its argument.
C4_CliEligibleHasOffer ==
    (cli_call.tool = "evaluate_creditworthiness"
        /\ cli_app.credit_eligibility = "eligible")
    =>  /\ cli_app.offered_amount # None
        /\ cli_app.offered_amount[1] > 0
        /\ cli_app.offered_interest_rate # None
        /\ cli_app.offered_interest_rate[1] > 0

\* generate_loan_sanction_letter was invoked in this step
GenerateInvoked ==
    /\ cli_call'.tool = "generate_loan_sanction_letter"
    /\ Len(cli_messages) < MaxCliMessages

----------------------------------------------------------------------------
(* Properties of the message history, checked under SpecHistory *)

\* C10: after n add_message calls on a stored session its history has length
\* min(n, MAX_MESSAGE_HISTORY) and holds the most recently appended messages
\* in the order they were appended; it is never longer than
\* MAX_MESSAGE_HISTORY.
C10_HistoryKeepsMostRecent ==
    \A session_id \in DOMAIN sessions :
        LET n        == appended[session_id]
            messages == sessions[session_id].messages
            kept     == IF n <= 50 THEN n ELSE 50
        IN  /\ Len(messages) = kept
            /\ Len(messages) <= MAX_MESSAGE_HISTORY
            /\ \A i \in 1..kept :
                messages[i].content = "message " \o IntToStr(n - kept + i)

\* more messages appended than the history keeps
C10_Witness ==
    \E session_id \in DOMAIN sessions :
        /\ appended[session_id] > MAX_MESSAGE_HISTORY
        /\ Len(sessions[session_id].messages) = MAX_MESSAGE_HISTORY
        /\ sessions[session_id].messages[1].content
                = "message " \o IntToStr(appended[session_id] - 49)

----------------------------------------------------------------------------
(* Properties of the session store, checked under SpecStore *)

\* C11: delete_session of an unknown id returns False without raising and
\* leaves every stored session and timestamp as it was; of a known id it
\* returns True and removes the session and its timestamp, leaving every other
\* session unchanged; a get_session of an id that is not stored returns None.
C11_DeleteSession ==
    [][ /\ returned'.op = "delete_session" =>
            LET session_id == returned'.arg
            IN  /\ ~returned'.raised
                /\ IF session_id \in DOMAIN sessions
                   THEN /\ returned'.value = TRUE
                        /\ DOMAIN sessions' = (DOMAIN sessions) \ {session_id}
                        /\ DOMAIN session_timestamps'
                                = (DOMAIN session_timestamps) \ {session_id}
                   ELSE /\ returned'.value = FALSE
                        /\ DOMAIN sessions' = DOMAIN sessions
                        /\ DOMAIN session_timestamps' = DOMAIN session_timestamps
                /\ \A other \in (DOMAIN sessions) \ {session_id} :
                        /\ sessions'[other] = sessions[other]
                        /\ session_timestamps'[other] = session_timestamps[other]
        /\ (returned'.op = "get_session" /\ returned'.arg \notin DOMAIN sessions)
                => returned'.value = <<>>
      ]_vars

\* a stored session deleted while another one stays
C11_Witness ==
    /\ returned.op = "delete_session"
    /\ returned.value = TRUE
    /\ returned.arg \notin DOMAIN sessions
    /\ DOMAIN sessions # {}

\* C12: cleanup_expired_sessions(h) removes exactly the sessions whose
\* timestamp is strictly before now - h and leaves every other session and
\* timestamp as it was, which is nothing at all when no session is expired;
\* the timestamp of a session is the time of the call in create_session, in a
\* get_session that finds it and in an update_session of it, and no other
\* call changes it.
C12_ExpireOlderThan ==
    [][ /\ returned'.op = "cleanup_expired_sessions" =>
            LET old == {id \in DOMAIN sessions :
                            session_timestamps[id] < now - returned'.arg}
            IN  /\ ~returned'.raised
                /\ DOMAIN sessions' = (DOMAIN sessions) \ old
                /\ DOMAIN session_timestamps' = DOMAIN sessions'
                /\ \A id \in DOMAIN sessions' : sessions'[id] = sessions[id]
                /\ old = {} => (sessions' = sessions
                                /\ session_timestamps' = session_timestamps)
        /\ \A id \in DOMAIN sessions' :
            session_timestamps'[id] =
                IF \/ returned'.op = "create_session" /\ returned'.arg = id
                   \/ /\ returned'.op \in {"get_session", "update_session"}
                      /\ returned'.arg = id
                THEN now
                ELSE session_timestamps[id]
      ]_vars

\* one session expired while another, touched exactly at the cutoff, stays
C12_Witness ==
    /\ returned.op = "cleanup_expired_sessions"
    /\ returned.value # {}
    /\ \E id \in DOMAIN sessions : session_timestamps[id] = now - returned.arg

----------------------------------------------------------------------------
(* Properties of the CLI router, checked under SpecRouter *)

\* C13: decide_next_step returns end_process if and only if the status it is
\* given is sanctioned, and conversational_agent for every other status;
\* given status credit_check_pending and credit_eligibility eligible it sets
\* the status to offer_made and returns conversational_agent.
C13_RouterEndsOnSanctioned ==
    [][ (cli_call'.tool = "decide_next_step" /\ ~cli_call'.raised) =>
            /\ cli_call'.route = "end_process" <=> cli_app.status = "sanctioned"
            /\ cli_app.status \in {"initiated", "kyc_pending", "credit_check_pending",
                                   "offer_made", "rejected", "completed"}
                    => cli_call'.route = "conversational_agent"
            /\ ( /\ cli_app.status = "credit_check_pending"
                 /\ cli_app.credit_eligibility = "eligible" )
                    => ( /\ cli_app'.status = "offer_made"
                         /\ cli_call'.route = "conversational_agent" )
      ]_vars

\* the router ended the process of a sanctioned application
C13_Witness ==
    /\ cli_call.tool = "decide_next_step"
    /\ ~cli_call.raised
    /\ cli_call.route = "end_process"
    /\ cli_app.status = "sanctioned"

\* C28: one evaluation of decide_next_step changes no field but status, and
\* status only by one of three advances: initiated to kyc_pending when name,
\* amount and purpose are present; kyc_pending to credit_check_pending when
\* kyc_verified; credit_check_pending to offer_made when eligible
C28_RouterFrame ==
    [][cli_call'.tool = "decide_next_step" =>
        /\ [cli_app' EXCEPT !.status = cli_app.status] = cli_app
        /\ cli_app'.status =
            IF /\ cli_app.status = "initiated"
               /\ TruthyStr(cli_app.applicant_name)
               /\ TruthyInt(cli_app.desired_amount)
               /\ TruthyStr(cli_app.purpose)
            THEN "kyc_pending"
            ELSE IF cli_app.status = "kyc_pending" /\ cli_app.kyc_verified
            THEN "credit_check_pending"
            ELSE IF /\ cli_app.status = "credit_check_pending"
                    /\ cli_app.credit_eligibility = "eligible"
            THEN "offer_made"
            ELSE cli_app.status]_vars

\* the router has advanced a verified application from kyc_pending, and has
\* left one that is not eligible at credit_check_pending
C28_Witness ==
    /\ cli_call.tool = "decide_next_step"
    /\ ~cli_call.raised
    /\ cli_app.status = "credit_check_pending"
    /\ cli_app.credit_eligibility \in {"eligible", "not_eligible"}
    /\ cli_app.kyc_verified

----------------------------------------------------------------------------
(* Properties of the chat endpoint, checked under Spec *)

\* C14: a turn whose LLM call times out, or fails with another error, still
\* completes: the endpoint answers 200 with the fixed apology text as the
\* reply, the history ends with the user message followed by the apology as
\* the assistant message, and the business logic has run on the user text and
\* is stored (a first turn with a name, an amount and a purpose stores them and
\* verifies the KYC); the snapshot returned is the stored application.
C14_LLMFailureAbsorbed ==
    [][ llm_call' \in {"timeout", "error"} =>
            LET session_id == response'.session_id[1]
                messages   == sessions'[session_id].messages
                apology    ==
                    IF llm_call' = "timeout"
                    THEN "I apologize, but I'm taking longer than expected. Could you please try again?"
                    ELSE "I apologize, but I encountered an error. Please try again."
            IN  /\ response'.op = "send_message"
                /\ response'.status = 200
                /\ response'.message = apology
                /\ Len(messages) >= 2
                /\ messages[Len(messages)] = [role |-> "assistant", content |-> apology]
                /\ messages[Len(messages) - 1].role = "user"
                /\ response'.loan_application
                        = Some(sessions'[session_id].loan_application)
                /\ \A full \in C6_FullTexts :
                        (Len(messages) = 2 /\ messages[1].content = full.text) =>
                            /\ sessions'[session_id].loan_application.applicant_name = Some(full.name)
                            /\ sessions'[session_id].loan_application.desired_amount = Some(full.amount)
                            /\ sessions'[session_id].loan_application.purpose = Some(full.purpose)
                            /\ sessions'[session_id].loan_application.kyc_verified
      ]_vars

\* a first turn whose LLM call timed out and whose text was still processed
C14_Witness ==
    /\ llm_call = "timeout"
    /\ response.status = 200
    /\ \E session_id \in DOMAIN sessions :
        /\ Len(sessions[session_id].messages) = 2
        /\ sessions[session_id].messages[2].content
                = "I apologize, but I'm taking longer than expected. Could you please try again?"
        /\ StoredApp(session_id).applicant_name = Some("Rahul Kumar")
        /\ StoredApp(session_id).desired_amount = Some(200000)

\* C16: POST /api/v1/chat without a session id answers 200, creates exactly
\* one session, counts it in total_sessions and active_sessions, and processes
\* the message on it (its history is the user message and the reply,
\* total_messages grows by one); with a session id that is not stored it
\* answers 404 and leaves the store, the timestamps and the metrics unchanged.
C16_ChatSendSession ==
    [][ request'.op = "send_message" =>
            IF request'.session_id = <<>>
            THEN /\ response'.status = 200
                 /\ LET session_id == response'.session_id[1]
                    IN  /\ session_id \notin DOMAIN sessions
                        /\ DOMAIN sessions' = (DOMAIN sessions) \cup {session_id}
                        /\ Len(sessions'[session_id].messages) = 2
                        /\ sessions'[session_id].messages[1].role = "user"
                        /\ sessions'[session_id].messages[2]
                                = [role |-> "assistant", content |-> response'.message]
                        /\ \A other \in DOMAIN sessions : sessions'[other] = sessions[other]
                 /\ metrics'.total_sessions = metrics.total_sessions + 1
                 /\ metrics'.active_sessions = metrics.active_sessions + 1
                 /\ metrics'.total_messages = metrics.total_messages + 1
            ELSE request'.session_id[1] \notin DOMAIN sessions =>
                    /\ response'.status = 404
                    /\ response'.message = "Session not found"
                    /\ sessions' = sessions
                    /\ session_timestamps' = session_timestamps
                    /\ metrics' = metrics
      ]_vars

\* a chat request without a session id was answered on a new session
C16_Witness ==
    /\ request = [op |-> "send_message", session_id |-> <<>>]
    /\ response.status = 200
    /\ response.session_id # <<>>
    /\ response.session_id[1] \in DOMAIN sessions
    /\ metrics.total_sessions = 1
    /\ metrics.total_messages = 1

----------------------------------------------------------------------------
(* Properties of the session endpoints, checked under SpecSessions *)

\* C17: a DELETE of a session id that directly follows a DELETE of the same
\* id returns the same response and leaves the session store, the timestamps
\* and the metrics counters as the first one left them.  The endpoint does
\* not keep it: it decrements active_sessions whether or not the id was
\* stored, so the second DELETE decrements it again.
C17_DeleteIdempotent ==
    [][ (request.op = "delete_session" /\ request' = request) =>
            /\ response' = response
            /\ sessions' = sessions
            /\ session_timestamps' = session_timestamps
            /\ metrics' = metrics
      ]_vars

----------------------------------------------------------------------------
(* Properties of the agent called directly, checked under SpecAgent *)

\* C15: process_message on a session id that is not stored raises a
\* session-not-found error and changes nothing: the store, with every history
\* and every loan application in it, and the timestamps are as before, and no
\* session is created.
C15_UnknownSessionRaises ==
    [][ (returned'.op = "process_message" /\ returned'.arg \notin DOMAIN sessions) =>
            /\ returned'.raised
            /\ returned'.value = "Session not found: " \o returned'.arg
            /\ sessions' = sessions
            /\ session_timestamps' = session_timestamps
            /\ metrics' = metrics
      ]_vars

\* the call raised while another session, with a history, was stored
C15_Witness ==
    /\ returned.op = "process_message"
    /\ returned.raised
    /\ returned.arg \notin DOMAIN sessions
    /\ \E other \in DOMAIN sessions : Len(sessions[other].messages) = 2

\* the replies of the LLM and of the agent, and their words
C20_ReplyWords ==
    { <<"Sure, how much do you need?",
        <<"Sure,", "how", "much", "do", "you", "need?">>>>,
      <<"Approved.", <<"Approved.">>>>,
      <<"I apologize, but I'm taking longer than expected. Could you please try again?",
        <<"I", "apologize,", "but", "I'm", "taking", "longer", "than", "expected.",
          "Could", "you", "please", "try", "again?">>>> }

\* C20: stream_response never raises; for a turn on a stored session whose
\* reply has n >= 1 words it emits n chunks in word order, each one word and a
\* trailing space, the first n-1 of type message without a loan application,
\* the n-th of type end with the stored loan application; when the session is
\* not found it emits a single chunk of type error that carries the error text.
C20_StreamChunks ==
    returned.op = "stream_response" =>
        /\ ~returned.raised
        /\ LET chunks     == returned.value
               session_id == returned.arg
           IN  IF session_id \in DOMAIN sessions
               THEN \E pair \in C20_ReplyWords :
                    LET messages == sessions[session_id].messages
                        n        == Len(pair[2])
                    IN  /\ messages[Len(messages)].content = pair[1]
                        /\ Len(chunks) = n
                        /\ \A i \in 1..n :
                            /\ chunks[i].content = pair[2][i] \o " "
                            /\ chunks[i].session_id = session_id
                            /\ chunks[i].type = IF i = n THEN "end" ELSE "message"
                            /\ chunks[i].loan_application =
                                IF i = n
                                THEN <<sessions[session_id].loan_application>>
                                ELSE <<>>
               ELSE chunks = << [ type       |-> "error",
                                  content    |-> "Session not found: " \o session_id,
                                  session_id |-> session_id ] >>

\* a reply of six words streamed, the last chunk carrying an offer
C20_Witness ==
    /\ returned.op = "stream_response"
    /\ Len(returned.value) = 6
    /\ returned.value[1].type = "message"
    /\ returned.value[6].type = "end"
    /\ returned.value[6].loan_application[1].status = "offer_made"

----------------------------------------------------------------------------
(* Properties of overlapping chat requests, checked under SpecConcurrent *)

\* C18: in the history of a session every user message is immediately
\* followed by the assistant reply to it, also when two chat requests on the
\* session overlap.  process_message does not keep it: it appends the user
\* message, awaits the LLM, and appends the reply afterwards, so a second
\* request appends its user message in between.
C18_ReplyFollowsItsMessage ==
    \A session_id \in DOMAIN sessions :
        LET messages == sessions[session_id].messages
        IN  \A i \in 1..(Len(messages) - 1) :
                messages[i].role = "user" => messages[i + 1].role = "assistant"

\* C19: every write to a field of a stored session record is made by a
\* holder of the store lock.  _process_business_logic does not keep it: it
\* assigns the fields of the stored loan application after get_session has
\* released the lock.
C19_WritesUnderLock ==
    last_write.locked

----------------------------------------------------------------------------
(* Properties of the WebSocket endpoint, checked under SpecSocket *)

ErrorFrames(frames) == Cardinality({i \in 1..Len(frames) : frames[i] = "error"})

\* C21: whenever an error-typed frame has been sent on the connection, it is
\* the only one and the socket is closed
C21_ErrorFrameCloses ==
    ErrorFrames(socket.frames) >= 1 =>
        /\ ErrorFrames(socket.frames) = 1
        /\ socket.state = "closed"

----------------------------------------------------------------------------
(* Properties of the graph invocation, checked under SpecGraph *)

\* C22: an invocation of the graph returns, and on a fresh state (empty
\* history, nothing known, status initiated) it runs conversational_agent once
C22_GraphInvocationReturns ==
    /\ graph.node # "raised"
    /\ cli_app = LoanApplication => graph.runs <= 1

----------------------------------------------------------------------------
(* Properties of knowledge retrieval, checked under SpecRAG *)

\* C23: after every start that reports success, the collection holds exactly
\* the ids loan_product_0 .. loan_product_7, each once
C23_StartupIndexesCorpus ==
    rag.initialized =>
        /\ rag.collection # None
        /\ Len(rag.collection[1]) = Len(LOAN_PRODUCTS_DATA)
        /\ \A i \in 1..Len(LOAN_PRODUCTS_DATA) :
                Cardinality({k \in 1..Len(rag.collection[1]) :
                                rag.collection[1][k] = CorpusIds[i]}) = 1

\* C24: a query on a system that is not initialized raises "RAG system not
\* initialized"; on an initialized one it never raises, and a failure of the
\* embedder or of the index yields the empty pair
C24_QueryErrors ==
    [][returned'.op = "query" =>
        /\ ~rag.initialized =>
                /\ returned'.raised
                /\ returned'.value = "RAG system not initialized"
        /\ rag.initialized =>
                /\ ~returned'.raised
                /\ rag'.fault # "none" =>
                        returned'.value = [documents |-> <<>>, sources |-> <<>>]
        /\ rag'.initialized = rag.initialized
        /\ rag'.collection = rag.collection]_vars

\* a query on an initialized system met a failure and returned the empty pair
C24_Witness ==
    /\ returned.op = "query"
    /\ rag.initialized
    /\ rag.fault = "index"
    /\ ~returned.raised
    /\ returned.value.documents = <<>>

----------------------------------------------------------------------------
(* Properties of the chat request, checked under SpecRequest *)

\* C25: a chat request whose text is empty after trimming never reaches the
\* agent: no session holds a user message with an empty text
C25_BlankMessageRefused ==
    \A session_id \in DOMAIN sessions :
        \A i \in 1..Len(sessions[session_id].messages) :
            sessions[session_id].messages[i].role = "user" =>
                sessions[session_id].messages[i].content # ""

----------------------------------------------------------------------------
(* Properties of the error envelope, checked under SpecErrors *)

\* C26: with debug mode disabled, neither the error nor the detail field of
\* a 5xx envelope contains the text of the exception
C26_NoInternalDetail ==
    (/\ returned.op \in {"http_exception_handler", "general_exception_handler"}
     /\ returned.value.status_code >= 500
     /\ ~returned.value.debug) =>
        /\ ~Contains(returned.value.error, returned.arg)
        /\ returned.value.detail # None =>
                ~Contains(returned.value.detail[1], returned.arg)

----------------------------------------------------------------------------
(* Properties of the response model, checked under SpecRoundTrip *)

----------------------------------------------------------------------------
(* The status of an application in the API agent *)

\* C31: the status of a stored application only moves forward along
\* initiated -> credit_check_pending -> (offer_made -> sanctioned) or rejected:
\* no step takes it back, it is never kyc_pending or completed, and no step
\* leaves rejected or sanctioned.
C31_StatusMovesForward ==
    [][\A session_id \in DOMAIN sessions \cap DOMAIN sessions' :
        LET before == StoredApp(session_id).status
            after  == sessions'[session_id].loan_application.status
        IN  /\ after \in {"initiated", "credit_check_pending", "offer_made",
                          "sanctioned", "rejected"}
            /\ \/ after = before
               \/ /\ before = "initiated"
                  /\ after \in {"credit_check_pending", "offer_made",
                                "sanctioned", "rejected"}
               \/ /\ before = "credit_check_pending"
                  /\ after \in {"offer_made", "sanctioned", "rejected"}
               \/ /\ before = "offer_made"
                  /\ after = "sanctioned"]_vars

\* turns were processed on an application that is rejected or sanctioned
C31_Witness ==
    \E session_id \in DOMAIN sessions :
        /\ StoredApp(session_id).status \in {"rejected", "sanctioned"}
        /\ appended[session_id] >= 4

\* C32: a stored application becomes sanctioned only in a turn that began with
\* status offer_made: no single message takes it from initiated or
\* credit_check_pending to sanctioned.
C32_SanctionedFromOfferMade ==
    [][\A session_id \in DOMAIN sessions \cap DOMAIN sessions' :
        (/\ sessions'[session_id].loan_application.status = "sanctioned"
         /\ StoredApp(session_id).status # "sanctioned")
            => StoredApp(session_id).status = "offer_made"]_vars

\* C33: at the end of every processed turn, kyc_verified is true if and only
\* if applicant_name is present, and if and only if status is not initiated.
C33_KycIffNameIffStarted ==
    \A session_id \in DOMAIN sessions :
        /\ StoredApp(session_id).kyc_verified
            <=> (StoredApp(session_id).applicant_name # None)
        /\ StoredApp(session_id).kyc_verified
            <=> (StoredApp(session_id).status # "initiated")

----------------------------------------------------------------------------
(* Concurrent turns on one session *)

\* C34: for any interleaving of concurrent turns on the same session, the
\* credit evaluation is performed at most once (credit_score, eligibility and
\* the offer are drawn once and never redrawn) and at most one sanction letter
\* URL is ever generated.
C34_DrawnOnce ==
    [][\A session_id \in DOMAIN sessions \cap DOMAIN sessions' :
        LET before == StoredApp(session_id)
            after  == sessions'[session_id].loan_application
        IN  /\ before.credit_eligibility # "pending" =>
                /\ after.credit_score = before.credit_score
                /\ after.credit_eligibility = before.credit_eligibility
                /\ after.offered_amount = before.offered_amount
                /\ after.offered_interest_rate = before.offered_interest_rate
            /\ before.credit_score # None =>
                before.credit_eligibility # "pending"
            /\ before.sanction_letter_url # None =>
                after.sanction_letter_url = before.sanction_letter_url]_vars

\* a turn that arrived while another was awaited has run its business logic
\* on an application that was evaluated and sanctioned before
C34_Witness ==
    \E session_id \in DOMAIN sessions :
        /\ Len(sessions[session_id].messages) >= 4
        /\ sessions[session_id].messages[1].role = "user"
        /\ sessions[session_id].messages[2].role = "user"
        /\ sessions[session_id].messages[1].content =
                "Yes my name is Asha Rao. I need 5 lakh for education"
        /\ StoredApp(session_id).sanction_letter_url # None
        /\ InFlight = {}

\* C35: if a session is deleted while a chat turn on it awaits the LLM, the
\* turn ends with an error surfaced to the caller and the session stays
\* deleted: the turn neither re-creates the session nor stores a message or a
\* loan application for that id.
C35_DeletedStaysDeleted ==
    [][\A r \in Requests :
        (/\ pending[r] # None
         /\ pending[r][1].session_id \notin DOMAIN sessions)
            => /\ pending[r][1].session_id \notin DOMAIN sessions'
               /\ pending[r][1].session_id \notin DOMAIN session_timestamps'
               /\ pending'[r] # pending[r] =>
                    /\ pending'[r] = None
                    /\ response'.op = "send_message"
                    /\ response'.status >= 500]_vars

\* the turn of a deleted session has ended with the error
C35_Witness ==
    /\ response.op = "send_message"
    /\ response.status = 500
    /\ response.message = NoneNotSubscriptable
    /\ InFlight = {}
    /\ sessions = <<>>
    /\ metrics.total_sessions = 1

----------------------------------------------------------------------------
(* The metrics counters and the session store *)

\* C36: after any sequence of API operations (sessions created, chat with
\* auto-create, DELETE for known and unknown ids), active_sessions equals the
\* number of sessions the store holds, and 0 <= active_sessions <=
\* total_sessions.
C36_ActiveSessionsIsStoreSize ==
    /\ metrics.active_sessions = Cardinality(DOMAIN sessions)
    /\ 0 <= metrics.active_sessions
    /\ metrics.active_sessions <= metrics.total_sessions

----------------------------------------------------------------------------
(* The chunks of stream_response, for every reply *)

\* C37: for every user message handed to stream_response, whatever the reply
\* text (empty or of spaces included), exactly one terminal chunk (of type end
\* or error) is emitted and it is the last chunk.
C37_OneTerminalChunk ==
    returned.op = "stream_response" =>
        LET chunks == returned.value
        IN  /\ Len(chunks) >= 1
            /\ chunks[Len(chunks)].type \in {"end", "error"}
            /\ \A i \in 1..(Len(chunks) - 1) : chunks[i].type \notin {"end", "error"}

----------------------------------------------------------------------------
(* The sanction letter tool of the CLI prototype *)

\* C38: generate_loan_sanction_letter is all-or-nothing in every reachable
\* state (a positive offer with no applicant name included): either it refuses
\* or fails and leaves the application unchanged, or it completes with
\* sanction_letter_generated true, status sanctioned and the letter URL stored
\* in extracted_info.
C38_CliLetterAllOrNothing ==
    [][ GenerateInvoked =>
            \/ /\ cli_app' = cli_app
               /\ cli_extracted_info' = cli_extracted_info
            \/ /\ ~cli_call'.raised
               /\ cli_app'.sanction_letter_generated
               /\ cli_app'.status = "sanctioned"
               /\ cli_extracted_info' # None
      ]_vars

----------------------------------------------------------------------------
(* The two maps of the session store *)

\* C39: in every reachable state of the session store, the ids of the session
\* map are the ids of the timestamp map, after any sequence of create (also on
\* an id that is stored), get, update, delete, cleanup and add_message calls.
C39_SameIds == DOMAIN sessions = DOMAIN session_timestamps

\* a cleanup has expired one session and kept another that holds a message
C39_Witness ==
    /\ returned.op = "cleanup_expired_sessions"
    /\ returned.value # {}
    /\ \E session_id \in DOMAIN sessions :
            /\ Len(sessions[session_id].messages) = 1
            /\ session_timestamps[session_id] > 0

====
